---- MODULE Spec2Model ----
(***************************************************************************)
(* A model of the gomobile binding core: the cross-runtime reference       *)
(* registry (package seq, reached through DestroyRef and the generated     *)
(* encoders/decoders) and the class wrapper generator (ClassGen /          *)
(* ObjcWrapper) together with the run-time behaviour of the Go entry       *)
(* points it emits.                                                        *)
(***************************************************************************)
EXTENDS Integers, Sequences, FiniteSets, TLC

VARIABLES
    reg,        \* the registry table: [objs, refs, next, nextF]
    pins,       \* pin count per foreign handle (bind_and_increment)
    violations, \* protocol violations reported so far
    crashed,    \* TRUE once the process was terminated by a fault
    hist,       \* per handle: registrations granted and release notifications received
    last,       \* the operation that ran last and what it returned
    lock,       \* owner of the registry lock, or NoThread
    pc,         \* per thread: position inside its registry operation
    job,        \* per thread: the operation it is running
    tres,       \* per thread: result of its last resolve
    oplog,      \* operations in the order they took the lock
    fs,         \* the FuncSet handed to the generator
    body,       \* the Go function body genFuncBody emitted for fs
    outcome,    \* what the last call of the generated entry point did
    classes,    \* the classes handed to the wrapper generator's Init
    out,        \* the files the wrapper generator emitted
    heap,       \* the C heap: buffers malloc'ed and not yet freed
    wire,       \* the string or byte array crossing the boundary
    shim,       \* the C entry point under execution
    cst,        \* the C side's state while the entry point runs
    meth,       \* the Objective-C method handed to isFuncSupported
    verdict,    \* what isFuncSupported answered for it
    types,      \* the classes or types handed to Init for the package list
    gen         \* the generator after Init: its package list and maps

vars == <<reg, pins, violations, crashed, hist, last, lock, pc, job, tres, oplog,
          fs, body, outcome, classes, out, heap, wire, shim, cst,
          meth, verdict, types, gen>>

regVars == <<reg, pins, violations, crashed, hist, last>>
thrVars == <<lock, pc, job, tres, oplog>>
genVars == <<fs, body, outcome>>
emitVars == <<classes, out>>
memVars == <<heap, wire>>
shimVars == <<shim, cst>>
supVars == <<meth, verdict>>
pkgVars == <<types, gen>>

-----------------------------------------------------------------------------
(* Bounds of the model *)

\* handles handed out per direction
MaxHandles == 2
\* largest refcount an entry is driven to
MaxCnt == 2
\* protocol violations counted before release notifications stop
MaxViolations == 2
\* registrations one handle is granted over its life
MaxRegs == 3
Nil == "nil"
Absent == "absent"
None == "none"

\* boundary-crossing objects
Objs == {"o1", "o2"}
Dirs == {"go", "foreign"}

\* handles a caller may present: the live ones, 0, and ones never handed out
HandleRange == (0 - (MaxHandles + 1)) .. (MaxHandles + 1)

-----------------------------------------------------------------------------
(* int32(refnum) with refnum a C.int32_t: both are 32-bit signed, the *)
(* conversion keeps every value of the handle range                    *)

ToInt32(x) == x

-----------------------------------------------------------------------------
(* The reference registry (package seq) *)

\* the handle that stands for "no object"
NullRefNum == 0

EmptyFn == [x \in {} |-> x]

RegEmpty == [objs |-> EmptyFn, refs |-> EmptyFn, next |-> 0 - 1, nextF |-> 1]

Live(r) == DOMAIN r.objs

\* can a new handle still be handed out in direction d (handle space of the model)
HasRoom(r, d) ==
    IF d = "go" THEN 0 - r.next <= MaxHandles ELSE r.nextF <= MaxHandles

\* register(payload, direction) -> handle: retrieve-and-bump, or create
register(r, o, d) ==
    IF <<o, d>> \in DOMAIN r.refs
    THEN LET h == r.refs[<<o, d>>]
         IN  [reg |-> [r EXCEPT !.objs = [r.objs EXCEPT ![h].cnt = @ + 1]],
              handle |-> h]
    ELSE LET h == IF d = "go" THEN r.next ELSE r.nextF
         IN  [reg |-> [objs |-> r.objs @@ (h :> [obj |-> o, cnt |-> 1]),
                       refs |-> r.refs @@ (<<o, d>> :> h),
                       next |-> IF d = "go" THEN r.next - 1 ELSE r.next,
                       nextF |-> IF d = "go" THEN r.nextF ELSE r.nextF + 1],
              handle |-> h]

\* resolve(handle) -> payload | absent
resolve(r, h) ==
    IF h # NullRefNum /\ h \in DOMAIN r.objs THEN r.objs[h].obj ELSE Absent

DirOf(h) == IF h < 0 THEN "go" ELSE "foreign"

\* release(handle): decrement, remove the entry at zero; an unknown handle is
\* a protocol violation that is reported and changes nothing
release(r, h) ==
    IF h = NullRefNum \/ h \notin DOMAIN r.objs
    THEN [reg |-> r, violation |-> TRUE, fatal |-> FALSE]
    ELSE IF r.objs[h].cnt <= 1
         THEN [reg |-> [r EXCEPT
                          !.objs = [k \in DOMAIN r.objs \ {h} |-> r.objs[k]],
                          !.refs = [k \in DOMAIN r.refs \ {<<r.objs[h].obj, DirOf(h)>>}
                                      |-> r.refs[k]]],
               violation |-> FALSE, fatal |-> FALSE]
         ELSE [reg |-> [r EXCEPT !.objs = [r.objs EXCEPT ![h].cnt = @ - 1]],
               violation |-> FALSE, fatal |-> FALSE]

\* bind_and_increment(handle) -> handle: one more pin, the same handle back
bind_and_increment(p, h) ==
    [pins |-> [p EXCEPT ![h] = @ + 1], handle |-> h]

-----------------------------------------------------------------------------
(* Entry points of the support files and the generated reference codecs *)

\* seq.ToRefNum: the handle of a Go value that crosses to the foreign side
ToRefNum(r, v) == register(r, v, "go")

\* seq.FromRefNum: the reference behind a handle, or Absent
FromRefNum(r, num) == resolve(r, num)

\* seq.Delete applied to the process state
seq_Delete(num) ==
    LET res == release(reg, num)
    IN  /\ reg' = res.reg
        /\ violations' = IF res.violation THEN violations + 1 ELSE violations
        /\ crashed' = res.fatal

DestroyRef_twice(refnum) ==
    LET res == release(release(reg, ToInt32(refnum)).reg, ToInt32(refnum))
    IN  /\ reg' = res.reg
        /\ violations' = IF res.violation THEN violations + 1 ELSE violations
        /\ crashed' = res.fatal

\* DestroyRef: the foreign runtime is done with one reference
DestroyRef(refnum) == seq_Delete(ToInt32(refnum))

genWrite_nonil(r, v) == ToRefNum(r, v)

genWrite_twice(r, v) ==
    IF v # Nil THEN ToRefNum(ToRefNum(r, v).reg, v)
    ELSE [reg |-> r, handle |-> NullRefNum]

\* genWrite, object case: the generated encoder of an object argument
genWrite(r, v) ==
    IF v # Nil THEN ToRefNum(r, v) ELSE [reg |-> r, handle |-> NullRefNum]

ClassGen_genRefRead_flipped(r, from, hasProxy) ==
    LET ref == FromRefNum(r, from)
    IN  IF ref = Absent THEN [kind |-> "nil", val |-> Nil]
        ELSE IF from > 0 THEN [kind |-> "go", val |-> ref]
        ELSE IF hasProxy THEN [kind |-> "proxy", val |-> ref]
        ELSE [kind |-> "ref", val |-> ref]

\* ClassGen.genRefRead: the generated decoder of an object handle (Java)
ClassGen_genRefRead(r, from, hasProxy) ==
    LET ref == FromRefNum(r, from)
    IN  IF ref = Absent THEN [kind |-> "nil", val |-> Nil]
        ELSE IF from < 0 THEN [kind |-> "go", val |-> ref]
        ELSE IF hasProxy THEN [kind |-> "proxy", val |-> ref]
        ELSE [kind |-> "ref", val |-> ref]

\* ObjcWrapper.genRefRead: the generated decoder of an object handle (ObjC);
\* without a proxy type the foreign branch is not emitted
ObjcWrapper_genRefRead(r, from, hasProxy) ==
    LET ref == FromRefNum(r, from)
    IN  IF ref = Absent THEN [kind |-> "nil", val |-> Nil]
        ELSE IF from < 0 THEN [kind |-> "go", val |-> ref]
        ELSE IF hasProxy THEN [kind |-> "proxy", val |-> ref]
        ELSE [kind |-> "nil", val |-> Nil]

-----------------------------------------------------------------------------
(* The registry driven from one thread: references crossing in both       *)
(* directions, handles decoded, live handles released                     *)

NoOp == [op |-> "none"]
NoRec == [tag |-> None]

\* per handle: registrations granted (reg), release notifications received after
\* the first registration (rel) and before any registration (early)
HistInit == [h \in HandleRange |-> [reg |-> 0, rel |-> 0, early |-> 0]]

ThrIdle ==
    /\ lock = None /\ pc = EmptyFn /\ job = EmptyFn /\ tres = EmptyFn /\ oplog = <<>>

GenIdle == fs = NoRec /\ body = NoRec /\ outcome = NoRec

EmitIdle == classes = NoRec /\ out = NoRec

MemIdle == heap = NoRec /\ wire = NoRec

ShimIdle == shim = NoRec /\ cst = NoRec

SupIdle == meth = NoRec /\ verdict = NoRec

PkgIdle == types = NoRec /\ gen = NoRec

RegIdle ==
    /\ reg = RegEmpty /\ pins = EmptyFn /\ violations = 0 /\ crashed = FALSE
    /\ hist = HistInit /\ last = NoOp

CanRegister(o, d) ==
    IF <<o, d>> \in DOMAIN reg.refs
    THEN reg.objs[reg.refs[<<o, d>>]].cnt < MaxCnt
    ELSE HasRoom(reg, d)

\* what a registration reports: the handle and the refcount right after it
Registered(o, d, w) ==
    [op |-> "register", arg |-> o, dir |-> d, handle |-> w.handle,
     cnt |-> IF w.handle \in Live(w.reg) THEN w.reg.objs[w.handle].cnt ELSE 0]

\* a Go value (or nil) is encoded as an argument of a foreign call
Write(v) ==
    /\ ~crashed
    /\ v # Nil => CanRegister(v, "go")
    /\ LET w == genWrite(reg, v)
       IN  /\ reg' = w.reg
           /\ last' = Registered(v, "go", w)
    /\ UNCHANGED <<pins, violations, crashed, hist, thrVars, genVars, emitVars, memVars, shimVars, supVars, pkgVars>>

\* a foreign object is exposed to the managed runtime
ForeignRegister(o) ==
    /\ ~crashed
    /\ CanRegister(o, "foreign")
    /\ LET w == register(reg, o, "foreign")
       IN  /\ reg' = w.reg
           /\ last' = Registered(o, "foreign", w)
    /\ UNCHANGED <<pins, violations, crashed, hist, thrVars, genVars, emitVars, memVars, shimVars, supVars, pkgVars>>

\* the foreign runtime is done with a reference it holds
Release(refnum) ==
    /\ ~crashed
    /\ refnum \in Live(reg)
    /\ DestroyRef(refnum)
    /\ last' = [op |-> "release"]
    /\ UNCHANGED <<pins, hist, thrVars, genVars, emitVars, memVars, shimVars, supVars, pkgVars>>

\* a handle received from the foreign side is decoded by the generated code
Read(from, hasProxy) ==
    /\ ~crashed
    /\ last' = [op |-> "read", handle |-> from, hasProxy |-> hasProxy,
                java |-> ClassGen_genRefRead(reg, from, hasProxy),
                objc |-> ObjcWrapper_genRefRead(reg, from, hasProxy)]
    /\ UNCHANGED <<reg, pins, violations, crashed, hist, thrVars, genVars, emitVars, memVars, shimVars, supVars, pkgVars>>

InitReg == RegIdle /\ ThrIdle /\ GenIdle /\ EmitIdle /\ MemIdle /\ ShimIdle /\ SupIdle /\ PkgIdle

NextReg ==
    \/ \E v \in Objs \cup {Nil} : Write(v)
    \/ \E o \in Objs : ForeignRegister(o)
    \/ \E h \in HandleRange : Release(h)
    \/ \E h \in HandleRange, hp \in BOOLEAN : Read(h, hp)

SpecReg == InitReg /\ [][NextReg]_vars

-----------------------------------------------------------------------------
(* Release notifications counted against registrations: Go objects cross  *)
(* to the foreign side, which sends DestroyRef for any handle it likes     *)

\* a Go object crosses: one more registration of its handle
Cross(v) ==
    /\ ~crashed
    /\ CanRegister(v, "go")
    /\ LET w == genWrite(reg, v)
       IN  /\ hist[w.handle].reg < MaxRegs
           /\ reg' = w.reg
           /\ hist' = [hist EXCEPT ![w.handle].reg = @ + 1]
    /\ UNCHANGED <<pins, violations, crashed, last, thrVars, genVars, emitVars, memVars, shimVars, supVars, pkgVars>>

\* a release notification arrives, for a live, a dead, an unknown or the zero handle
Notify(refnum) ==
    /\ ~crashed
    /\ release(reg, ToInt32(refnum)).violation => violations < MaxViolations
    /\ DestroyRef(refnum)
    /\ hist' = IF hist[ToInt32(refnum)].reg = 0
               THEN [hist EXCEPT ![ToInt32(refnum)].early = @ + 1]
               ELSE [hist EXCEPT ![ToInt32(refnum)].rel = @ + 1]
    /\ UNCHANGED <<pins, last, thrVars, genVars, emitVars, memVars, shimVars, supVars, pkgVars>>

NextRel ==
    \/ \E v \in Objs : Cross(v)
    \/ \E h \in HandleRange : Notify(h)

SpecRel == InitReg /\ [][NextRel]_vars

-----------------------------------------------------------------------------
(* The registry used from several threads. Each operation runs between     *)
(* taking and dropping the registry lock; a release works in two steps,    *)
(* the decrement and the removal of an entry whose count reached zero.     *)

Threads == {"t1", "t2"}
\* operations started in one run
MaxOps == 3

ConcObjs == {"o1"}
ConcHandles == (0 - MaxHandles) .. (0 - 1)

ConcJobs ==
    [op : {"register"}, arg : ConcObjs] \cup
    [op : {"release", "resolve"}, arg : ConcHandles]

Acquire_nolock(t) == lock' = t

\* take the registry lock
Acquire(t) == lock = None /\ lock' = t

\* a release notification on a table that may hold a count of zero: no effect
\* on an unknown handle
Decrement(r, h) ==
    IF h \in DOMAIN r.objs /\ r.objs[h].cnt > 0
    THEN [r EXCEPT !.objs = [r.objs EXCEPT ![h].cnt = @ - 1]]
    ELSE r

\* remove the entry of h once its count is zero
Sweep(r, h) ==
    IF h \in DOMAIN r.objs /\ r.objs[h].cnt = 0
    THEN [r EXCEPT !.objs = [k \in DOMAIN r.objs \ {h} |-> r.objs[k]],
                   !.refs = [k \in DOMAIN r.refs \ {<<r.objs[h].obj, DirOf(h)>>}
                               |-> r.refs[k]]]
    ELSE r

\* what a resolve sees: the payload and the count stored with it
Observe(r, h) ==
    [val |-> resolve(r, h),
     cnt |-> IF h \in DOMAIN r.objs THEN r.objs[h].cnt ELSE 0]

\* the registry after the logged operations ran one after the other
RECURSIVE Replay(_)
Replay(log) ==
    IF log = <<>> THEN RegEmpty
    ELSE LET r == Replay(SubSeq(log, 1, Len(log) - 1))
             e == log[Len(log)]
         IN  CASE e.op = "register" -> register(r, e.arg, "go").reg
               [] e.op = "release" -> release(r, e.arg).reg
               [] OTHER -> r

\* some thread is between the two steps of the final release of h
HalfRemoved(h) ==
    \E u \in Threads :
        /\ pc[u] = "sweep" /\ job[u].op = "release" /\ job[u].arg = h
        /\ h \in Live(reg) /\ reg.objs[h].cnt = 0

\* thread t is asked to run an operation
Begin(t, j) ==
    /\ pc[t] = "idle"
    /\ Len(oplog) + Cardinality({u \in Threads : pc[u] = "waiting"}) < MaxOps
    /\ pc' = [pc EXCEPT ![t] = "waiting"]
    /\ job' = [job EXCEPT ![t] = [op |-> j.op, arg |-> j.arg, pos |-> 0,
                                  during |-> j.op = "resolve" /\ HalfRemoved(j.arg)]]
    /\ UNCHANGED <<regVars, lock, tres, oplog, genVars, emitVars, memVars, shimVars, supVars, pkgVars>>

\* thread t gets the lock: its operation takes its place in the order
Enter(t) ==
    /\ pc[t] = "waiting"
    /\ job[t].op = "register" => CanRegister(job[t].arg, "go")
    /\ Acquire(t)
    /\ pc' = [pc EXCEPT ![t] = "locked"]
    /\ job' = [job EXCEPT ![t].pos = Len(oplog)]
    /\ oplog' = Append(oplog, [op |-> job[t].op, arg |-> job[t].arg])
    /\ UNCHANGED <<regVars, tres, genVars, emitVars, memVars, shimVars, supVars, pkgVars>>

\* the first step of the operation
Step(t) ==
    /\ pc[t] = "locked"
    /\ CASE job[t].op = "register" ->
              /\ reg' = register(reg, job[t].arg, "go").reg
              /\ pc' = [pc EXCEPT ![t] = "unlock"]
              /\ UNCHANGED tres
         [] job[t].op = "release" ->
              /\ reg' = Decrement(reg, job[t].arg)
              /\ pc' = [pc EXCEPT ![t] = "sweep"]
              /\ UNCHANGED tres
         [] OTHER ->
              /\ tres' = [tres EXCEPT ![t] = Observe(reg, job[t].arg)]
              /\ pc' = [pc EXCEPT ![t] = "unlock"]
              /\ UNCHANGED reg
    /\ UNCHANGED <<pins, violations, crashed, hist, last, lock, job, oplog, genVars, emitVars, memVars, shimVars, supVars, pkgVars>>

\* the second step of a release
Finish(t) ==
    /\ pc[t] = "sweep"
    /\ reg' = Sweep(reg, job[t].arg)
    /\ pc' = [pc EXCEPT ![t] = "unlock"]
    /\ UNCHANGED <<pins, violations, crashed, hist, last, lock, job, tres, oplog, genVars, emitVars, memVars, shimVars, supVars, pkgVars>>

\* the operation returns: the lock is dropped
Unlock(t) ==
    /\ pc[t] = "unlock"
    /\ lock' = IF lock = t THEN None ELSE lock
    /\ pc' = [pc EXCEPT ![t] = "idle"]
    /\ UNCHANGED <<regVars, job, tres, oplog, genVars, emitVars, memVars, shimVars, supVars, pkgVars>>

NoJob == [op |-> None, arg |-> None, pos |-> 0, during |-> FALSE]
NoSeen == [val |-> None, cnt |-> 0]

InitConc ==
    /\ RegIdle /\ GenIdle /\ EmitIdle /\ MemIdle /\ ShimIdle /\ SupIdle /\ PkgIdle
    /\ lock = None
    /\ pc = [t \in Threads |-> "idle"]
    /\ job = [t \in Threads |-> NoJob]
    /\ tres = [t \in Threads |-> NoSeen]
    /\ oplog = <<>>

NextConc ==
    \/ \E t \in Threads, j \in ConcJobs : Begin(t, j)
    \/ \E t \in Threads : Enter(t)
    \/ \E t \in Threads : Step(t)
    \/ \E t \in Threads : Finish(t)
    \/ \E t \in Threads : Unlock(t)

SpecConc == InitConc /\ [][NextConc]_vars

-----------------------------------------------------------------------------
(* The Foreign Type Model read by ClassGen *)

\* variants of one FuncSet
MaxFuncs == 3

\* java.Type, by name: a primitive, two classes (Sub extends Obj), an int
\* array and a byte array
Kind(t) ==
    CASE t = "int" -> "Int"
      [] t = "boolean" -> "Boolean"
      [] t = "string" -> "String"
      [] t \in {"Obj", "Sub"} -> "Object"
      [] t \in {"ints", "bytes"} -> "Array"
      [] OTHER -> "Invalid"

ElemKind(t) == IF t = "bytes" THEN "Byte" ELSE "Int"

\* ClassGen.isSupported
isSupported(t) ==
    IF Kind(t) = "Array" THEN ElemKind(t) = "Byte" ELSE TRUE

\* ClassGen.isFuncSupported
isFuncSupported(f) ==
    IF \E i \in 1..Len(f.Params) : ~isSupported(f.Params[i]) THEN FALSE
    ELSE IF f.Ret # Nil THEN isSupported(f.Ret)
    ELSE TRUE

\* ClassGen.isFuncSetSupported
isFuncSetSupported(s) ==
    \E k \in 1..Len(s.Funcs) : isFuncSupported(s.Funcs[k])

\* the variants a FuncSet is drawn from: parameter types and return type
FuncPool ==
    {[Params |-> <<>>, Ret |-> Nil],
     [Params |-> <<"int">>, Ret |-> Nil],
     [Params |-> <<"Sub">>, Ret |-> "int"],
     [Params |-> <<"Obj">>, Ret |-> Nil],
     [Params |-> <<"ints">>, Ret |-> Nil],
     [Params |-> <<"int", "int">>, Ret |-> "int"],
     [Params |-> <<"int", "Sub">>, Ret |-> Nil],
     [Params |-> <<"Sub", "int">>, Ret |-> "ints"]}

MinOf(S) == CHOOSE x \in S : \A y \in S : x <= y
MaxOf(S) == CHOOSE x \in S : \A y \in S : x >= y

\* the unified type of a set of types: the type itself, the widest common
\* class, or Nil for interface{}
CombineTypes(S) ==
    IF Cardinality(S) = 1 THEN CHOOSE t \in S : TRUE
    ELSE IF S \subseteq {"Obj", "Sub"} THEN "Obj"
    ELSE Nil

\* the unified signature of a list of variants: parameters beyond the
\* shortest list are folded into one variadic tail
CommonSig(funcs, throws) ==
    LET lens == {Len(funcs[k].Params) : k \in 1..Len(funcs)}
        minp == MinOf(lens)
        variadic == Cardinality(lens) > 1
        n == IF variadic THEN minp + 1 ELSE minp
        Slot(j) == IF j - 1 > minp THEN minp ELSE j - 1
        At(idx) == {funcs[kj[1]].Params[kj[2]] :
                      kj \in {x \in (1..Len(funcs)) \X (1..MaxOf(lens)) :
                                /\ x[2] <= Len(funcs[x[1]].Params)
                                /\ Slot(x[2]) = idx}}
        rets == {funcs[k].Ret : k \in 1..Len(funcs)}
    IN  [tag |-> "fs",
         Funcs |-> funcs,
         Params |-> [idx \in 1..n |-> CombineTypes(At(idx - 1))],
         Variadic |-> variadic,
         HasRet |-> rets # {Nil},
         Ret |-> IF Nil \in rets THEN Nil ELSE CombineTypes(rets),
         Throws |-> throws]

\* Java admits no two variants with the same parameter list
Overloads(funcs) ==
    \A k1, k2 \in 1..Len(funcs) :
        funcs[k1].Params = funcs[k2].Params => k1 = k2

FuncLists ==
    {fl \in UNION {[1..n -> FuncPool] : n \in 1..MaxFuncs} : Overloads(fl)}

-----------------------------------------------------------------------------
(* ClassGen.genFuncBody and genFuncRet: the Go entry point of a FuncSet *)

\* the scan over the variants: minp and maxp start at the first variant's
\* parameter count, only supported variants are counted and bucketed
RECURSIVE Scan(_, _, _)
Scan(funcs, k, st) ==
    IF k > Len(funcs) THEN st
    ELSE IF ~isFuncSupported(funcs[k]) THEN Scan(funcs, k + 1, st)
    ELSE LET n == Len(funcs[k].Params)
             had == IF n \in DOMAIN st.buckets THEN st.buckets[n] ELSE <<>>
         IN  Scan(funcs, k + 1,
                  [minp |-> IF n < st.minp THEN n ELSE st.minp,
                   maxp |-> IF n < st.minp THEN st.maxp
                            ELSE IF n > st.maxp THEN n ELSE st.maxp,
                   numF |-> st.numF + 1,
                   buckets |-> [c \in DOMAIN st.buckets \cup {n} |->
                                  IF c = n THEN Append(had, k) ELSE st.buckets[c]]])

\* genFuncRet returning from a function without results only when it throws
genFuncRet_fallthrough(s, f, mustReturn) ==
    [panicOnExc |-> ~s.Throws,
     readRes |-> f.Ret # Nil,
     stmt |-> IF ~s.Throws
              THEN IF s.HasRet
                   THEN IF f.Ret # Nil THEN "return _res" ELSE "return nil"
                   ELSE "none"
              ELSE IF s.HasRet
                   THEN IF f.Ret # Nil THEN "return _res, _exc" ELSE "return nil, _exc"
                   ELSE "return _exc"]

\* genFuncRet returning the nil placeholder in every branch of a set with a
\* unified return value
genFuncRet_nilalways(s, f, mustReturn) ==
    [panicOnExc |-> ~s.Throws,
     readRes |-> f.Ret # Nil,
     stmt |-> IF ~s.Throws
              THEN IF s.HasRet THEN "return nil"
                   ELSE IF mustReturn THEN "return" ELSE "none"
              ELSE IF s.HasRet THEN "return nil, _exc" ELSE "return _exc"]

genFuncRet_nopanic(s, f, mustReturn) ==
    [panicOnExc |-> FALSE,
     readRes |-> f.Ret # Nil,
     stmt |-> IF ~s.Throws
              THEN IF s.HasRet
                   THEN IF f.Ret # Nil THEN "return _res" ELSE "return nil"
                   ELSE IF mustReturn THEN "return" ELSE "none"
              ELSE IF s.HasRet
                   THEN IF f.Ret # Nil THEN "return _res, _exc" ELSE "return nil, _exc"
                   ELSE "return _exc"]

\* ClassGen.genFuncRet: the statements after the shim call
genFuncRet(s, f, mustReturn) ==
    [panicOnExc |-> ~s.Throws,
     readRes |-> f.Ret # Nil,
     stmt |-> IF ~s.Throws
              THEN IF s.HasRet
                   THEN IF f.Ret # Nil THEN "return _res" ELSE "return nil"
                   ELSE IF mustReturn THEN "return" ELSE "none"
              ELSE IF s.HasRet
                   THEN IF f.Ret # Nil THEN "return _res, _exc" ELSE "return nil, _exc"
                   ELSE "return _exc"]

genCall_late(static) == IF static THEN <<"shim">> ELSE <<"shim", "bind">>

\* the call statement: the receiver is pinned in the argument list of the
\* shim call, a static function has no receiver
genCall(static) == IF static THEN <<"shim">> ELSE <<"bind", "shim">>

\* one parameter of a variant: where its argument is read from, the unified
\* type found there, and whether a type assertion is emitted
genParam(s, minp, i, a) ==
    LET tail == i >= minp
        slot == IF tail THEN minp ELSE i
        ct == s.Params[slot + 1]
    IN  [src |-> IF tail THEN "tail" ELSE "param",
         idx |-> slot,
         off |-> IF tail THEN i - minp ELSE 0,
         ct |-> ct,
         a |-> a,
         asserted |-> ct # a]

\* does the generator index fs.Params out of range for this variant
genParamFaults(s, minp, f) ==
    \E i \in 0..(Len(f.Params) - 1) :
        (IF i >= minp THEN minp ELSE i) >= Len(s.Params)

genBranch(s, minp, numF, static, k) ==
    LET f == s.Funcs[k]
    IN  [f |-> k,
         params |-> [j \in 1..Len(f.Params) |-> genParam(s, minp, j - 1, f.Params[j])],
         call |-> genCall(static),
         ret |-> genFuncRet(s, f, numF > 1)]

genBucket_reversed(s, st, static, i) ==
    [n |-> i,
     branches |-> [b \in 1..Len(st.buckets[i]) |->
                     genBranch(s, st.minp, st.numF, static,
                               st.buckets[i][Len(st.buckets[i]) + 1 - b])]]

\* the variants of one bucket, in the order the scan met them
genBucket(s, st, static, i) ==
    [n |-> i,
     branches |-> [b \in 1..Len(st.buckets[i]) |->
                     genBranch(s, st.minp, st.numF, static, st.buckets[i][b])]]

\* the case labels in emission order: minp..maxp with a non-empty bucket
RECURSIVE genCases(_, _, _, _, _)
genCases(s, st, static, i, acc) ==
    IF i > st.maxp THEN acc
    ELSE IF i \notin DOMAIN st.buckets THEN genCases(s, st, static, i + 1, acc)
    ELSE genCases(s, st, static, i + 1, Append(acc, genBucket(s, st, static, i)))

genFuncBody_nopanic(s, static) ==
    LET n0 == Len(s.Funcs[1].Params)
        st == Scan(s.Funcs, 1,
                   [minp |-> n0, maxp |-> n0, numF |-> 0, buckets |-> EmptyFn])
        fault == \E k \in 1..Len(s.Funcs) :
                    /\ isFuncSupported(s.Funcs[k])
                    /\ genParamFaults(s, st.minp, s.Funcs[k])
    IN  [tag |-> "body",
         fault |-> fault,
         static |-> static,
         minp |-> st.minp,
         maxp |-> st.maxp,
         numF |-> st.numF,
         hasSwitch |-> Cardinality(DOMAIN st.buckets) # 1,
         cases |-> IF fault THEN <<>> ELSE genCases(s, st, static, st.minp, <<>>),
         trailingPanic |-> FALSE]

\* ClassGen.genFuncBody: buckets by parameter count, a switch over the
\* argument count when there is more than one bucket, the variants of a
\* bucket in declaration order, and the closing panic for overloaded sets
genFuncBody(s, static) ==
    LET n0 == Len(s.Funcs[1].Params)
        st == Scan(s.Funcs, 1,
                   [minp |-> n0, maxp |-> n0, numF |-> 0, buckets |-> EmptyFn])
        fault == \E k \in 1..Len(s.Funcs) :
                    /\ isFuncSupported(s.Funcs[k])
                    /\ genParamFaults(s, st.minp, s.Funcs[k])
    IN  [tag |-> "body",
         fault |-> fault,
         static |-> static,
         minp |-> st.minp,
         maxp |-> st.maxp,
         numF |-> st.numF,
         hasSwitch |-> Cardinality(DOMAIN st.buckets) # 1,
         cases |-> IF fault THEN <<>> ELSE genCases(s, st, static, st.minp, <<>>),
         trailingPanic |-> st.numF > 1]

-----------------------------------------------------------------------------
(* What the emitted Go code does: type checking and execution *)

\* dynamic types of argument values ("str" is a value no variant takes)
DynTypes == {"int", "Sub", "str"}

\* a value of dynamic type v is assignable to (or asserts to) type t
Implements(v, t) == IF t = "Obj" THEN v \in {"Obj", "Sub"} ELSE t \in {Nil, v}

IsInterface(t) == t \in {Nil, "Obj", "Sub"}

\* x.(t) with x of static type ct is accepted by the compiler
AssertCompiles(ct, t) ==
    IF ~IsInterface(ct) THEN FALSE
    ELSE IF ct = Nil \/ IsInterface(t) THEN TRUE
    ELSE Implements(t, ct)

\* number of fixed (non-variadic) parameters of the Go signature
Fixed(s) == IF s.Variadic THEN Len(s.Params) - 1 ELSE Len(s.Params)

\* the call site type-checks against the signature genFuncDecl emits
WellTyped(s, args) ==
    /\ IF s.Variadic THEN Len(args) >= Fixed(s) ELSE Len(args) = Fixed(s)
    /\ \A j \in 1..Len(args) :
          Implements(args[j], s.Params[IF j > Fixed(s) THEN Fixed(s) + 1 ELSE j])

\* a parameter reference of the body is well formed against the signature
ParamCompiles(s, p) ==
    /\ IF p.src = "tail" THEN s.Variadic /\ p.idx = Fixed(s)
       ELSE p.idx < Fixed(s)
    /\ IF p.asserted THEN AssertCompiles(p.ct, p.a) ELSE TRUE

\* a function with results must end in a terminating statement
Terminates(b) ==
    IF b.trailingPanic THEN TRUE
    ELSE /\ ~b.hasSwitch /\ Len(b.cases) = 1 /\ Len(b.cases[1].branches) = 1
         /\ \A j \in 1..Len(b.cases[1].branches[1].params) :
               ~b.cases[1].branches[1].params[j].asserted
         /\ b.cases[1].branches[1].ret.stmt # "none"

\* the emitted function compiles
Compiles(s, b) ==
    /\ ~b.fault
    /\ IF b.hasSwitch THEN s.Variadic /\ b.minp = Fixed(s) ELSE TRUE
    /\ \A c \in 1..Len(b.cases) : \A r \in 1..Len(b.cases[c].branches) :
          \A j \in 1..Len(b.cases[c].branches[r].params) :
              ParamCompiles(s, b.cases[c].branches[r].params[j])
    /\ IF s.HasRet \/ s.Throws THEN Terminates(b) ELSE TRUE

\* len of the variadic tail at a call
TailLen(s, args) == Len(args) - Fixed(s)

\* the value a parameter reference reads
ArgVal(s, args, p) ==
    IF p.src = "tail" THEN args[Fixed(s) + p.off + 1] ELSE args[p.idx + 1]

OutOfRange(s, args, p) == p.src = "tail" /\ p.off >= TailLen(s, args)

\* the receiver proxy of a method call and the exception a shim may hand back
RecvObj == "o1"
ExcObj == "o2"

\* run the statements of the call: each "bind" is one Bind_proxy_refnum__
RECURSIVE RunCall(_, _, _)
RunCall(stmts, recv, acc) ==
    IF stmts = <<>> THEN acc
    ELSE LET st == Head(stmts)
         IN  IF st = "bind"
             THEN LET b == bind_and_increment(acc.pins, recv)
                  IN  RunCall(Tail(stmts), recv,
                              [acc EXCEPT !.pins = b.pins,
                                          !.this = Append(@, b.handle),
                                          !.trace = Append(@, "bind")])
             ELSE RunCall(Tail(stmts), recv,
                          [acc EXCEPT !.shimThis = acc.this,
                                      !.trace = Append(@, "shim")])

\* the branches of one bucket from branch r on; acc collects what happened
RECURSIVE RunBranches(_, _, _, _, _, _)
RunBranches(s, b, brs, r, env, acc) ==
    IF r > Len(brs)
    THEN [acc EXCEPT !.kind = IF b.trailingPanic THEN "panic_nomatch"
                                ELSE IF acc.calls = <<>> THEN "silent"
                                ELSE "returned"]
    ELSE LET br == brs[r]
             ps == br.params
             asserted == {j \in 1..Len(ps) : ps[j].asserted}
             plain == (1..Len(ps)) \ asserted
         IN  IF \E j \in asserted : OutOfRange(s, env.args, ps[j])
             THEN [acc EXCEPT !.kind = "fault"]
             ELSE IF \E j \in asserted : ~Implements(ArgVal(s, env.args, ps[j]), ps[j].a)
             THEN RunBranches(s, b, brs, r + 1, env, acc)
             ELSE IF \E j \in plain : OutOfRange(s, env.args, ps[j])
             THEN [acc EXCEPT !.kind = "fault"]
             ELSE LET c == RunCall(br.call, env.recv, acc)
                      d == ClassGen_genRefRead(env.reg, env.exc, TRUE)
                      after == [c EXCEPT !.calls = Append(@, br.f),
                                         !.err = d.val]
                  IN  IF br.ret.panicOnExc /\ d.val # Nil
                      THEN [after EXCEPT !.kind = "panic_exc"]
                      ELSE IF br.ret.stmt = "none"
                      THEN RunBranches(s, b, brs, r + 1, env, after)
                      ELSE [after EXCEPT !.kind = "returned",
                                         !.stmt = br.ret.stmt]

\* the emitted entry point called with args; the shim returns handle exc
Exec(s, b, r, p, recv, args, exc) ==
    LET env == [args |-> args, exc |-> exc, reg |-> r, recv |-> recv]
        acc0 == [tag |-> "out", args |-> args, exc |-> exc, kind |-> "none",
                 calls |-> <<>>, err |-> Nil, stmt |-> "none",
                 trace |-> <<>>, this |-> <<>>, shimThis |-> <<>>, pins |-> p]
        key == b.minp + TailLen(s, args)
        hit == {c \in 1..Len(b.cases) : b.cases[c].n = key}
    IN  IF b.hasSwitch
        THEN IF hit = {}
             THEN [acc0 EXCEPT !.kind = IF b.trailingPanic THEN "panic_nomatch"
                                         ELSE "silent"]
             ELSE RunBranches(s, b, b.cases[CHOOSE c \in hit : TRUE].branches, 1,
                              env, acc0)
        ELSE IF Len(b.cases) = 0
             THEN [acc0 EXCEPT !.kind = IF b.trailingPanic THEN "panic_nomatch"
                                         ELSE "silent"]
             ELSE RunBranches(s, b, b.cases[1].branches, 1, env, acc0)

-----------------------------------------------------------------------------
(* Generation of one FuncSet and one call of its entry point *)

\* the registry of the running program: the receiver and an exception object,
\* both foreign-owned
RegRunning ==
    register(register(RegEmpty, RecvObj, "foreign").reg, ExcObj, "foreign").reg

RecvHandle == RegRunning.refs[<<RecvObj, "foreign">>]
ExcHandle == RegRunning.refs[<<ExcObj, "foreign">>]

InitGen ==
    /\ reg = RegRunning
    /\ pins = [h \in Live(RegRunning) |-> 0]
    /\ violations = 0 /\ crashed = FALSE /\ hist = HistInit /\ last = NoOp
    /\ ThrIdle
    /\ fs \in {s \in {CommonSig(fl, throws) : fl \in FuncLists, throws \in BOOLEAN} :
                 isFuncSetSupported(s)}
    /\ body = NoRec
    /\ outcome = NoRec
    /\ EmitIdle /\ MemIdle /\ ShimIdle /\ SupIdle /\ PkgIdle

\* genGo emits the entry point: a proxy method or a static function
Generate(static) ==
    /\ body = NoRec
    /\ body' = genFuncBody(fs, static)
    /\ UNCHANGED <<regVars, thrVars, fs, outcome, emitVars, memVars, shimVars, supVars, pkgVars>>

\* argument lists tried: up to one argument more than the longest variant
ArgLists(s) ==
    UNION {[1..n -> DynTypes] :
             n \in 0..(MaxOf({Len(s.Funcs[k].Params) : k \in 1..Len(s.Funcs)}) + 1)}

\* Go code calls the entry point
Call(args, exc) ==
    /\ body # NoRec /\ outcome = NoRec
    /\ Compiles(fs, body)
    /\ WellTyped(fs, args)
    /\ outcome' = Exec(fs, body, reg, pins, RecvHandle, args, exc)
    /\ pins' = outcome'.pins
    /\ crashed' = (outcome'.kind \in {"panic_exc", "panic_nomatch", "fault"})
    /\ UNCHANGED <<reg, violations, hist, last, thrVars, fs, body, emitVars, memVars, shimVars, supVars, pkgVars>>

NextGen ==
    \/ \E static \in BOOLEAN : Generate(static)
    \/ \E args \in ArgLists(fs), exc \in {NullRefNum, ExcHandle} : Call(args, exc)

SpecGen == InitGen /\ [][NextGen]_vars

-----------------------------------------------------------------------------
(* The wrapper generators: what GenH, GenC / GenM, GenGo and GenInterfaces *)
(* write for a list of classes                                             *)

\* classes handed to Init in one run
MaxClasses == 2

RECURSIVE Concat(_)
Concat(ss) == IF ss = <<>> THEN <<>> ELSE Head(ss) \o Concat(Tail(ss))

\* objc.Type of the type names used for ObjC methods
ObjcType ==
    [int       |-> [Kind |-> "Int", Indirect |-> FALSE, Name |-> "", ByRef |-> FALSE],
     bool      |-> [Kind |-> "Bool", Indirect |-> FALSE, Name |-> "", ByRef |-> FALSE],
     str       |-> [Kind |-> "String", Indirect |-> FALSE, Name |-> "", ByRef |-> FALSE],
     data      |-> [Kind |-> "Data", Indirect |-> FALSE, Name |-> "", ByRef |-> FALSE],
     cls       |-> [Kind |-> "Class", Indirect |-> FALSE, Name |-> "NSObject", ByRef |-> FALSE],
     NSErrorPP |-> [Kind |-> "Class", Indirect |-> TRUE, Name |-> "NSError", ByRef |-> FALSE],
     intP      |-> [Kind |-> "Int", Indirect |-> TRUE, Name |-> "", ByRef |-> FALSE],
     unknown   |-> [Kind |-> "Unknown", Indirect |-> FALSE, Name |-> "", ByRef |-> FALSE],
     proto     |-> [Kind |-> "Protocol", Indirect |-> FALSE, Name |-> "NSCopying", ByRef |-> FALSE],
     protoRef  |-> [Kind |-> "Protocol", Indirect |-> FALSE, Name |-> "NSCopying", ByRef |-> TRUE],
     sel       |-> [Kind |-> "Class", Indirect |-> FALSE, Name |-> "SEL", ByRef |-> FALSE],
     void      |-> [Kind |-> "Class", Indirect |-> FALSE, Name |-> "void", ByRef |-> FALSE],
     clsPP     |-> [Kind |-> "Class", Indirect |-> TRUE, Name |-> "NSObject", ByRef |-> FALSE]]

\* ObjcWrapper.isSupported (ByRef: the declaration ends in " *")
ObjcWrapper_isSupported(t) ==
    IF ObjcType[t].Indirect THEN FALSE
    ELSE IF ObjcType[t].Kind = "Unknown" THEN FALSE
    ELSE IF ObjcType[t].Kind = "Protocol" THEN ~ObjcType[t].ByRef
    ELSE IF ObjcType[t].Kind = "Class" THEN ObjcType[t].Name \notin {"SEL", "void"}
    ELSE TRUE

ObjcWrapper_isErrorType(t) ==
    ObjcType[t].Kind = "Class" /\ ObjcType[t].Indirect /\ ObjcType[t].Name = "NSError"

\* isFuncSupported accepting the error parameter in any position
ObjcWrapper_isFuncSupported_anypos(f) ==
    /\ \A i \in 1..Len(f.Params) :
          IF ObjcWrapper_isSupported(f.Params[i]) THEN TRUE
          ELSE ObjcWrapper_isErrorType(f.Params[i])
    /\ IF f.Ret # Nil THEN ObjcWrapper_isSupported(f.Ret) ELSE TRUE

ObjcWrapper_isFuncSupported(f) ==
    /\ \A i \in 1..Len(f.Params) :
          IF ObjcWrapper_isSupported(f.Params[i]) THEN TRUE
          ELSE i = Len(f.Params) /\ ObjcWrapper_isErrorType(f.Params[i])
    /\ IF f.Ret # Nil THEN ObjcWrapper_isSupported(f.Ret) ELSE TRUE

\* the method has a trailing NSError** parameter
returnsErr(f) ==
    Len(f.Params) > 0 /\ ObjcWrapper_isErrorType(f.Params[Len(f.Params)])

\* ObjcWrapper.genFuncDecl reads ret.Kind with ret = f.Ret: a nil pointer
\* dereference when the method has the error parameter and no return type
ObjcWrapper_genFuncDeclFaults(f) == f.Ret = Nil /\ returnsErr(f)

JFunc(params, ret, public) == [Params |-> params, Ret |-> ret, Public |-> public]
OFunc(params, ret, static) == [Params |-> params, Ret |-> ret, Static |-> static]

\* instance methods (AllMethods) a Java class is drawn with
JavaMethodLists ==
    {<<CommonSig(<<JFunc(<<"int">>, Nil, TRUE)>>, FALSE),
       CommonSig(<<JFunc(<<"ints">>, Nil, TRUE)>>, FALSE)>>,
     <<CommonSig(<<JFunc(<<"int">>, Nil, TRUE), JFunc(<<"ints">>, Nil, TRUE)>>, FALSE),
       CommonSig(<<JFunc(<<"Sub", "int">>, "ints", TRUE)>>, FALSE)>>,
     <<CommonSig(<<JFunc(<<"Sub">>, "int", TRUE), JFunc(<<"int", "int">>, "int", TRUE)>>,
                 TRUE)>>}

\* static functions and constructors (Funcs) a Java class is drawn with
JavaFuncLists ==
    {<<>>,
     <<CommonSig(<<JFunc(<<>>, Nil, TRUE)>>, FALSE),
       CommonSig(<<JFunc(<<"int">>, Nil, TRUE), JFunc(<<"int", "int">>, "int", FALSE)>>,
                 FALSE)>>}

ObjcMethodLists ==
    {<<OFunc(<<"int">>, Nil, FALSE), OFunc(<<"unknown">>, Nil, FALSE)>>,
     <<OFunc(<<"str", "NSErrorPP">>, "bool", FALSE), OFunc(<<"int">>, "intP", FALSE)>>,
     <<OFunc(<<"int">>, "data", FALSE), OFunc(<<"NSErrorPP">>, Nil, FALSE)>>}

ObjcFuncLists ==
    {<<>>, <<OFunc(<<"data">>, "data", TRUE), OFunc(<<"intP">>, Nil, TRUE)>>}

\* a class as the importer hands it over; managed: the class is extended by
\* a Go type given to Init (goClsMap / supers)
JavaClasses ==
    [Methods : JavaMethodLists, Funcs : JavaFuncLists, managed : BOOLEAN]

ObjcClasses ==
    [Methods : ObjcMethodLists, Funcs : ObjcFuncLists, managed : BOOLEAN]

ClassLists(pool) == UNION {[1..n -> pool] : n \in 1..MaxClasses}

\* one emitted artifact: its kind, the shim family or storage it belongs to,
\* and the class, FuncSet and variant it is emitted for (0: none)
Item(kind, prefix, c, s, k) ==
    [kind |-> kind, prefix |-> prefix, cls |-> c, fs |-> s, f |-> k]

\* the items emitted for every variant of every FuncSet of a list, in order
PerFunc(sets, emit(_, _)) ==
    Concat([s \in 1..Len(sets) |->
              Concat([k \in 1..Len(sets[s].Funcs) |-> emit(s, k)])])


\* ClassGen.genH: the declarations of the static shims of one class
ClassGen_genH(cls, c) ==
    PerFunc(cls.Funcs,
            LAMBDA s, k :
                IF ~cls.Funcs[s].Funcs[k].Public \/ ~isFuncSupported(cls.Funcs[s].Funcs[k])
                THEN <<>>
                ELSE <<Item("decl", "cproxy_s", c, s, k)>>)

\* ClassGen.GenH: the header
ClassGen_GenH(list) ==
    Concat([c \in 1..Len(list) |->
              PerFunc(list[c].Methods,
                      LAMBDA s, k :
                          IF ~isFuncSupported(list[c].Methods[s].Funcs[k]) THEN <<>>
                          ELSE <<Item("decl", "cproxy", c, s, k)>>
                               \o (IF list[c].managed
                                   THEN <<Item("decl", "csuper", c, s, k)>>
                                   ELSE <<>>))])
    \o Concat([c \in 1..Len(list) |-> ClassGen_genH(list[c], c)])

\* ClassGen.genC: the bodies of the static shims of one class; each calls
\* through class_ and m_s_
ClassGen_genC(cls, c) ==
    PerFunc(cls.Funcs,
            LAMBDA s, k :
                IF ~cls.Funcs[s].Funcs[k].Public \/ ~isFuncSupported(cls.Funcs[s].Funcs[k])
                THEN <<>>
                ELSE <<Item("body", "cproxy_s", c, s, k)>>)

\* the static storage GenC declares for one class, followed by genC
ClassGen_storage(cls, c) ==
    <<Item("storage", "class", c, 0, 0)>>
    \o (IF cls.managed THEN <<Item("storage", "sclass", c, 0, 0)>> ELSE <<>>)
    \o PerFunc(cls.Funcs,
               LAMBDA s, k :
                   IF ~cls.Funcs[s].Funcs[k].Public \/ ~isFuncSupported(cls.Funcs[s].Funcs[k])
                   THEN <<>>
                   ELSE <<Item("storage", "m_s", c, s, k)>>)
    \o PerFunc(cls.Methods,
               LAMBDA s, k :
                   IF ~isFuncSupported(cls.Methods[s].Funcs[k]) THEN <<>>
                   ELSE <<Item("storage", "m", c, s, k)>>
                        \o (IF cls.managed THEN <<Item("storage", "sm", c, s, k)>> ELSE <<>>))
    \o ClassGen_genC(cls, c)

\* the lookups init_proxies performs for one class
ClassGen_lookups(cls, c) ==
    <<Item("lookup", "class", c, 0, 0)>>
    \o (IF cls.managed THEN <<Item("lookup", "sclass", c, 0, 0)>> ELSE <<>>)
    \o PerFunc(cls.Funcs,
               LAMBDA s, k :
                   IF ~cls.Funcs[s].Funcs[k].Public \/ ~isFuncSupported(cls.Funcs[s].Funcs[k])
                   THEN <<>>
                   ELSE <<Item("lookup", "m_s", c, s, k)>>)
    \o PerFunc(cls.Methods,
               LAMBDA s, k :
                   IF ~isFuncSupported(cls.Methods[s].Funcs[k]) THEN <<>>
                   ELSE <<Item("lookup", "m", c, s, k)>>
                        \o (IF cls.managed THEN <<Item("lookup", "sm", c, s, k)>> ELSE <<>>))

\* GenC with the csuper shims defined for every class, overridden or not
ClassGen_bodies_always(cls, c) ==
    PerFunc(cls.Methods,
            LAMBDA s, k :
                IF ~isFuncSupported(cls.Methods[s].Funcs[k]) THEN <<>>
                ELSE <<Item("body", "cproxy", c, s, k), Item("body", "csuper", c, s, k)>>)

\* the method shims GenC defines for one class after init_proxies
ClassGen_bodies(cls, c) ==
    PerFunc(cls.Methods,
            LAMBDA s, k :
                IF ~isFuncSupported(cls.Methods[s].Funcs[k]) THEN <<>>
                ELSE <<Item("body", "cproxy", c, s, k)>>
                     \o (IF cls.managed THEN <<Item("body", "csuper", c, s, k)>> ELSE <<>>))

\* GenC with the method shims defined ahead of the storage they use
ClassGen_GenC_bodiesfirst(list) ==
    Concat([c \in 1..Len(list) |-> ClassGen_bodies(list[c], c)])
    \o Concat([c \in 1..Len(list) |-> ClassGen_storage(list[c], c)])
    \o <<Item("init_proxies", "push", 0, 0, 0)>>
    \o Concat([c \in 1..Len(list) |-> ClassGen_lookups(list[c], c)])
    \o <<Item("init_proxies", "pop", 0, 0, 0)>>

\* ClassGen.GenC: the native file
ClassGen_GenC(list) ==
    Concat([c \in 1..Len(list) |-> ClassGen_storage(list[c], c)])
    \o <<Item("init_proxies", "push", 0, 0, 0)>>
    \o Concat([c \in 1..Len(list) |-> ClassGen_lookups(list[c], c)])
    \o <<Item("init_proxies", "pop", 0, 0, 0)>>
    \o Concat([c \in 1..Len(list) |-> ClassGen_bodies(list[c], c)])

\* the shim calls of one emitted Go entry point, in the order of its body
ClassGen_calls(b, prefix, c, s) ==
    Concat([i \in 1..Len(b.cases) |->
              [r \in 1..Len(b.cases[i].branches) |->
                 Item("gocall", prefix, c, s, b.cases[i].branches[r].f)]])

\* a static FuncSet is emitted when one of its variants is public and supported
ClassGen_staticEmitted(s) ==
    \E k \in 1..Len(s.Funcs) : s.Funcs[k].Public /\ isFuncSupported(s.Funcs[k])

\* ClassGen.genGo: the Go side of one class
ClassGen_genGo(cls, c) ==
    Concat([s \in 1..Len(cls.Funcs) |->
              IF ~ClassGen_staticEmitted(cls.Funcs[s]) THEN <<>>
              ELSE <<Item("gofunc", "cproxy_s", c, s, 0)>>
                   \o ClassGen_calls(genFuncBody(cls.Funcs[s], TRUE), "cproxy_s", c, s)])
    \o Concat([s \in 1..Len(cls.Methods) |->
              IF ~isFuncSetSupported(cls.Methods[s]) THEN <<>>
              ELSE <<Item("gomethod", "cproxy", c, s, 0)>>
                   \o ClassGen_calls(genFuncBody(cls.Methods[s], FALSE), "cproxy", c, s)])
    \o (IF ~cls.managed THEN <<>>
        ELSE <<Item("Super", "csuper", c, 0, 0)>>
             \o Concat([s \in 1..Len(cls.Methods) |->
                   IF ~isFuncSetSupported(cls.Methods[s]) THEN <<>>
                   ELSE <<Item("gomethod", "csuper", c, s, 0)>>
                        \o ClassGen_calls(genFuncBody(cls.Methods[s], FALSE),
                                          "csuper", c, s)]))

ClassGen_GenGo(list) == Concat([c \in 1..Len(list) |-> ClassGen_genGo(list[c], c)])

\* genFuncBody indexes fs.Params out of range while GenGo runs
ClassGen_GenGoFaults(list) ==
    \E c \in 1..Len(list) :
       \/ \E s \in 1..Len(list[c].Funcs) :
             /\ ClassGen_staticEmitted(list[c].Funcs[s])
             /\ genFuncBody(list[c].Funcs[s], TRUE).fault
       \/ \E s \in 1..Len(list[c].Methods) :
             /\ isFuncSetSupported(list[c].Methods[s])
             /\ genFuncBody(list[c].Methods[s], FALSE).fault

\* ClassGen.genInterface: the Go interface of one class
ClassGen_genInterface(cls, c) ==
    <<Item("interface", "type", c, 0, 0)>>
    \o Concat([s \in 1..Len(cls.Methods) |->
                 IF ~isFuncSetSupported(cls.Methods[s]) THEN <<>>
                 ELSE <<Item("interface", "method", c, s, 0)>>])
    \o (IF cls.managed THEN <<Item("interface", "Super", c, 0, 0)>> ELSE <<>>)

ClassGen_GenInterfaces(list) ==
    Concat([c \in 1..Len(list) |-> ClassGen_genInterface(list[c], c)])


\* the items emitted for every function of a list of ObjC functions, in order
PerObjcFunc(funcs, emit(_)) == Concat([s \in 1..Len(funcs) |-> emit(s)])

\* genCFuncDecl and genFuncBody append "_s" to the prefix of a static function
ObjcWrapper_prefix(prefix, f) == IF f.Static THEN prefix \o "_s" ELSE prefix

\* ObjcWrapper.genH: the declarations of the class functions of one type
ObjcWrapper_genH(n, c) ==
    PerObjcFunc(n.Funcs,
                LAMBDA s :
                    IF ~ObjcWrapper_isFuncSupported(n.Funcs[s]) THEN <<>>
                    ELSE <<Item("decl", ObjcWrapper_prefix("cproxy", n.Funcs[s]), c, s, 1)>>)

\* ObjcWrapper.GenH: the header
ObjcWrapper_GenH(list) ==
    Concat([c \in 1..Len(list) |->
              PerObjcFunc(list[c].Methods,
                          LAMBDA s :
                              IF ~ObjcWrapper_isFuncSupported(list[c].Methods[s]) THEN <<>>
                              ELSE <<Item("decl", "cproxy", c, s, 1)>>
                                   \o (IF list[c].managed
                                       THEN <<Item("decl", "csuper", c, s, 1)>>
                                       ELSE <<>>))])
    \o Concat([c \in 1..Len(list) |-> ObjcWrapper_genH(list[c], c)])

\* ObjcWrapper.genM: the bodies of the class functions of one type
ObjcWrapper_genM(n, c) ==
    PerObjcFunc(n.Funcs,
                LAMBDA s :
                    IF ~ObjcWrapper_isFuncSupported(n.Funcs[s]) THEN <<>>
                    ELSE <<Item("body", ObjcWrapper_prefix("cproxy", n.Funcs[s]), c, s, 1)>>)

\* ObjcWrapper.GenM: the native file
ObjcWrapper_GenM(list) ==
    Concat([c \in 1..Len(list) |-> ObjcWrapper_genM(list[c], c)])
    \o Concat([c \in 1..Len(list) |->
              PerObjcFunc(list[c].Methods,
                          LAMBDA s :
                              IF ~ObjcWrapper_isFuncSupported(list[c].Methods[s]) THEN <<>>
                              ELSE <<Item("body", "cproxy", c, s, 1)>>
                                   \o (IF list[c].managed
                                       THEN <<Item("body", "csuper", c, s, 1)>>
                                       ELSE <<>>))])

\* ObjcWrapper.genGo: the Go side of one type
ObjcWrapper_genGo(n, c) ==
    PerObjcFunc(n.Funcs,
                LAMBDA s :
                    IF ~ObjcWrapper_isFuncSupported(n.Funcs[s]) THEN <<>>
                    ELSE <<Item("gofunc", ObjcWrapper_prefix("cproxy", n.Funcs[s]), c, s, 0),
                           Item("gocall", ObjcWrapper_prefix("cproxy", n.Funcs[s]), c, s, 1)>>)
    \o PerObjcFunc(n.Methods,
                   LAMBDA s :
                       IF ~ObjcWrapper_isFuncSupported(n.Methods[s]) THEN <<>>
                       ELSE <<Item("gomethod", "cproxy", c, s, 0),
                              Item("gocall", "cproxy", c, s, 1)>>)
    \o (IF ~n.managed THEN <<>>
        ELSE <<Item("Super", "csuper", c, 0, 0)>>
             \o PerObjcFunc(n.Methods,
                            LAMBDA s :
                                IF ~ObjcWrapper_isFuncSupported(n.Methods[s]) THEN <<>>
                                ELSE <<Item("gomethod", "csuper", c, s, 0),
                                       Item("gocall", "csuper", c, s, 1)>>))

ObjcWrapper_GenGo(list) == Concat([c \in 1..Len(list) |-> ObjcWrapper_genGo(list[c], c)])

\* genFuncDecl faults for a function GenGo emits
ObjcWrapper_GenGoFaults(list) ==
    \E c \in 1..Len(list) :
       \/ \E s \in 1..Len(list[c].Funcs) :
             /\ ObjcWrapper_isFuncSupported(list[c].Funcs[s])
             /\ ObjcWrapper_genFuncDeclFaults(list[c].Funcs[s])
       \/ \E s \in 1..Len(list[c].Methods) :
             /\ ObjcWrapper_isFuncSupported(list[c].Methods[s])
             /\ ObjcWrapper_genFuncDeclFaults(list[c].Methods[s])

\* ObjcWrapper.genInterface: the Go interface of one type
ObjcWrapper_genInterface(n, c) ==
    <<Item("interface", "type", c, 0, 0)>>
    \o PerObjcFunc(n.Methods,
                   LAMBDA s :
                       IF ~ObjcWrapper_isFuncSupported(n.Methods[s]) THEN <<>>
                       ELSE <<Item("interface", "method", c, s, 0)>>)
    \o (IF n.managed THEN <<Item("interface", "Super", c, 0, 0)>> ELSE <<>>)

ObjcWrapper_GenInterfaces(list) ==
    Concat([c \in 1..Len(list) |-> ObjcWrapper_genInterface(list[c], c)])

\* genFuncDecl faults for a method GenInterfaces emits
ObjcWrapper_GenInterfacesFaults(list) ==
    \E c \in 1..Len(list) : \E s \in 1..Len(list[c].Methods) :
        /\ ObjcWrapper_isFuncSupported(list[c].Methods[s])
        /\ ObjcWrapper_genFuncDeclFaults(list[c].Methods[s])

-----------------------------------------------------------------------------
(* One generator run: Init with a list of classes, then each output file   *)
(* once, in any order; a generator fault ends the run                      *)

Files == {"h", "c", "go", "interfaces"}

NoOutput ==
    [tag |-> "out", done |-> {}, faulted |-> {},
     h |-> <<>>, c |-> <<>>, go |-> <<>>, interfaces |-> <<>>]

InitEmit ==
    /\ RegIdle /\ ThrIdle /\ GenIdle /\ MemIdle /\ ShimIdle /\ SupIdle /\ PkgIdle
    /\ classes \in {[tag |-> "classes", lang |-> "java", list |-> l] :
                       l \in ClassLists(JavaClasses)}
               \cup {[tag |-> "classes", lang |-> "objc", list |-> l] :
                       l \in ClassLists(ObjcClasses)}
    /\ out = NoOutput

\* one output file is written, or the generator panics and nothing is
Emit(file, items, faults) ==
    /\ file \notin out.done
    /\ out.faulted = {}
    /\ out' = IF faults
              THEN [out EXCEPT !.done = @ \cup {file}, !.faulted = {file}]
              ELSE [out EXCEPT !.done = @ \cup {file}, ![file] = items]
    /\ UNCHANGED <<regVars, thrVars, genVars, classes, memVars, shimVars, supVars, pkgVars>>

GenH ==
    IF classes.lang = "java"
    THEN Emit("h", ClassGen_GenH(classes.list), FALSE)
    ELSE Emit("h", ObjcWrapper_GenH(classes.list), FALSE)

GenC ==
    /\ classes.lang = "java"
    /\ Emit("c", ClassGen_GenC(classes.list), FALSE)

GenM ==
    /\ classes.lang = "objc"
    /\ Emit("c", ObjcWrapper_GenM(classes.list), FALSE)

GenGo ==
    IF classes.lang = "java"
    THEN Emit("go", ClassGen_GenGo(classes.list), ClassGen_GenGoFaults(classes.list))
    ELSE Emit("go", ObjcWrapper_GenGo(classes.list), ObjcWrapper_GenGoFaults(classes.list))

GenInterfaces ==
    IF classes.lang = "java"
    THEN Emit("interfaces", ClassGen_GenInterfaces(classes.list), FALSE)
    ELSE Emit("interfaces", ObjcWrapper_GenInterfaces(classes.list),
              ObjcWrapper_GenInterfacesFaults(classes.list))

NextEmit == GenH \/ GenC \/ GenM \/ GenGo \/ GenInterfaces

SpecEmit == InitEmit /\ [][NextEmit]_vars

-----------------------------------------------------------------------------
(* Strings and byte arrays on the wire: the Go support code of the two     *)
(* foreign runtimes (encodeString, decodeString, fromSlice, toSlice) over   *)
(* a C heap, and the native conversions at the other end                   *)

\* characters per Go string
MaxStrLen == 2
\* bytes per byte array
MaxBytes == 2

\* UTF-8 images of U+0061, U+00E9, U+20AC, U+1F600, and a stray continuation byte
Chars == {<<97>>, <<195, 169>>, <<226, 130, 172>>, <<240, 159, 152, 128>>, <<128>>}

\* Go strings: byte sequences
Strings == UNION {{Concat(cs) : cs \in [1..n -> Chars]} : n \in 0..MaxStrLen}

ReplacementChar == 65533
IsCont(x) == x >= 128 /\ x < 192
IsSurrogate(r) == r >= 55296 /\ r < 57344

\* the rune at the head of a non-empty byte sequence and its width, as a Go
\* range loop over a string decodes it
DecodeRune(b) ==
    LET b0 == b[1]
        r2 == (b0 - 192) * 64 + (b[2] - 128)
        r3 == (b0 - 224) * 4096 + (b[2] - 128) * 64 + (b[3] - 128)
        r4 == (b0 - 240) * 262144 + (b[2] - 128) * 4096 + (b[3] - 128) * 64 + (b[4] - 128)
        bad == [r |-> ReplacementChar, size |-> 1]
    IN  IF b0 < 128 THEN [r |-> b0, size |-> 1]
        ELSE IF b0 >= 194 /\ b0 < 224
        THEN IF Len(b) >= 2 /\ IsCont(b[2]) THEN [r |-> r2, size |-> 2] ELSE bad
        ELSE IF b0 >= 224 /\ b0 < 240
        THEN IF Len(b) >= 3 /\ IsCont(b[2]) /\ IsCont(b[3])
             THEN IF r3 >= 2048 /\ ~IsSurrogate(r3) THEN [r |-> r3, size |-> 3] ELSE bad
             ELSE bad
        ELSE IF b0 >= 240 /\ b0 < 245
        THEN IF Len(b) >= 4 /\ IsCont(b[2]) /\ IsCont(b[3]) /\ IsCont(b[4])
             THEN IF r4 >= 65536 /\ r4 <= 1114111 THEN [r |-> r4, size |-> 4] ELSE bad
             ELSE bad
        ELSE bad

RECURSIVE Runes(_)
Runes(b) ==
    IF b = <<>> THEN <<>>
    ELSE <<DecodeRune(b).r>> \o Runes(SubSeq(b, DecodeRune(b).size + 1, Len(b)))

\* the UTF-8 image of a rune
EncodeRune(r) ==
    IF r < 128 THEN <<r>>
    ELSE IF r < 2048 THEN <<192 + (r \div 64), 128 + (r % 64)>>
    ELSE IF r < 65536 THEN <<224 + (r \div 4096), 128 + ((r \div 64) % 64), 128 + (r % 64)>>
    ELSE <<240 + (r \div 262144), 128 + ((r \div 4096) % 64), 128 + ((r \div 64) % 64),
           128 + (r % 64)>>

\* a Go string is well formed when it is the UTF-8 image of its runes
WellFormed(s) == Concat([i \in 1..Len(Runes(s)) |-> EncodeRune(Runes(s)[i])]) = s

\* seq.UTF16Encode: the UTF-16 code units of the runes of s, a surrogate pair
\* for a rune beyond the basic plane
UTF16Encode(s) ==
    Concat([i \in 1..Len(Runes(s)) |->
              LET r == Runes(s)[i]
              IN  IF IsSurrogate(r) \/ r > 1114111 THEN <<ReplacementChar>>
                  ELSE IF r < 65536 THEN <<r>>
                  ELSE <<55296 + ((r - 65536) \div 1024), 56320 + ((r - 65536) % 1024)>>])

\* uint16 code units as they lie in memory (little endian), and back
UnitsToBytes(u) == Concat([i \in 1..Len(u) |-> <<u[i] % 256, u[i] \div 256>>])
BytesToUnits(b) == [i \in 1..(Len(b) \div 2) |-> b[2 * i - 1] + 256 * b[2 * i]]

\* the runes of a sequence of UTF-16 code units
RECURSIVE UTF16Decode(_)
UTF16Decode(u) ==
    IF u = <<>> THEN <<>>
    ELSE IF u[1] >= 55296 /\ u[1] < 56320 /\ Len(u) >= 2 /\ u[2] >= 56320 /\ u[2] < 57344
    THEN <<65536 + (u[1] - 55296) * 1024 + (u[2] - 56320)>> \o UTF16Decode(SubSeq(u, 3, Len(u)))
    ELSE <<IF IsSurrogate(u[1]) THEN ReplacementChar ELSE u[1]>> \o UTF16Decode(Tail(u))

-----------------------------------------------------------------------------
(* The C heap *)

NullPtr == 0

HeapEmpty == [tag |-> "heap", bufs |-> <<>>]

\* malloc: a new buffer; the pointer returned is Len(h.bufs) + 1
Malloc(h, data) ==
    [h EXCEPT !.bufs = Append(@, [space |-> "c", data |-> data, live |-> TRUE, frees |-> 0])]

\* memory owned by the Go runtime or by the foreign runtime, never malloc'ed
Own(h, space, data) ==
    [h EXCEPT !.bufs = Append(@, [space |-> space, data |-> data, live |-> TRUE, frees |-> 0])]

NewPtr(h) == Len(h.bufs) + 1

\* C.free
Free(h, p) == [h EXCEPT !.bufs[p].live = FALSE, !.bufs[p].frees = @ + 1]

NullN == [ptr |-> NullPtr, len |-> 0]


Runtimes == {"java", "objc"}

\* the bytes an nstring or nbyteslice points at
Pointee(h, n) == SubSeq(h.bufs[n.ptr].data, 1, n.len)

\* encodeString with len counting code units instead of bytes
android_encodeString_units(h, s) ==
    IF Len(s) = 0 THEN [heap |-> h, n |-> NullN]
    ELSE [heap |-> Malloc(h, UnitsToBytes(UTF16Encode(s))),
          n |-> [ptr |-> NewPtr(h), len |-> Len(UTF16Encode(s))]]

\* seq_android encodeString: nothing for the empty string, else a malloc'ed
\* buffer holding the UTF-16 code units of s; len counts bytes
android_encodeString(h, s) ==
    IF Len(s) = 0 THEN [heap |-> h, n |-> NullN]
    ELSE [heap |-> Malloc(h, UnitsToBytes(UTF16Encode(s))),
          n |-> [ptr |-> NewPtr(h), len |-> Len(UTF16Encode(s)) * 2]]

\* seq_android decodeString: the bytes of the buffer taken as they are for the
\* Go string, then the buffer is freed
android_decodeString(h, str) ==
    IF str.ptr = NullPtr THEN [heap |-> h, s |-> <<>>]
    ELSE [heap |-> Free(h, str.ptr), s |-> Pointee(h, str)]

\* seq_darwin encodeString: a malloc'ed copy of the bytes of s
darwin_encodeString(h, s) ==
    IF Len(s) = 0 THEN [heap |-> h, n |-> NullN]
    ELSE [heap |-> Malloc(h, s), n |-> [ptr |-> NewPtr(h), len |-> Len(s)]]

\* seq_darwin decodeString: C.GoStringN, then the buffer is freed
darwin_decodeString(h, str) ==
    IF str.ptr = NullPtr THEN [heap |-> h, s |-> <<>>]
    ELSE [heap |-> Free(h, str.ptr), s |-> Pointee(h, str)]

encodeString(rt, h, s) ==
    IF rt = "java" THEN android_encodeString(h, s) ELSE darwin_encodeString(h, s)

\* decodeString without the free
decodeString_nofree(rt, h, str) ==
    IF str.ptr = NullPtr THEN [heap |-> h, s |-> <<>>]
    ELSE [heap |-> h, s |-> Pointee(h, str)]

decodeString(rt, h, str) ==
    IF rt = "java" THEN android_decodeString(h, str) ELSE darwin_decodeString(h, str)

\* go_seq_to_java_string: a Java String of the code units in the buffer;
\* go_seq_to_objc_string: an NSString of the UTF-8 bytes in the buffer.
\* Both free the buffer. The foreign string is kept as its UTF-16 code units.
go_seq_to_foreign_string(rt, h, str) ==
    IF str.ptr = NullPtr THEN [heap |-> h, fstr |-> <<>>]
    ELSE [heap |-> Free(h, str.ptr),
          fstr |-> IF rt = "java" THEN BytesToUnits(Pointee(h, str))
                   ELSE UTF16Encode(Pointee(h, str))]

\* go_seq_from_java_string / go_seq_from_objc_string: nothing for the empty
\* string, else a malloc'ed buffer holding the UTF-8 image of the string
go_seq_from_foreign_string(rt, h, fstr) ==
    IF fstr = <<>> THEN [heap |-> h, n |-> NullN]
    ELSE LET utf8 == Concat([i \in 1..Len(UTF16Decode(fstr)) |->
                               EncodeRune(UTF16Decode(fstr)[i])])
         IN  [heap |-> Malloc(h, utf8), n |-> [ptr |-> NewPtr(h), len |-> Len(utf8)]]

\* Go slices and nbyteslices: a pointer and a length
NilSlice == [ptr |-> NullPtr, len |-> 0]

\* seq_android fromSlice
android_fromSlice(h, s, cpy) ==
    IF s.ptr = NullPtr \/ s.len = 0 THEN [heap |-> h, n |-> NullN]
    ELSE IF cpy
    THEN [heap |-> Malloc(h, Pointee(h, s)), n |-> [ptr |-> NewPtr(h), len |-> s.len]]
    ELSE [heap |-> h, n |-> [ptr |-> s.ptr, len |-> s.len]]

\* seq_darwin fromSlice
darwin_fromSlice(h, s, cpy) ==
    IF s.ptr = NullPtr \/ s.len = 0 THEN [heap |-> h, n |-> NullN]
    ELSE IF cpy
    THEN [heap |-> Malloc(h, Pointee(h, s)), n |-> [ptr |-> NewPtr(h), len |-> s.len]]
    ELSE [heap |-> h, n |-> [ptr |-> s.ptr, len |-> s.len]]

\* fromSlice handing out a view in both modes
fromSlice_view(rt, h, s, cpy) ==
    IF s.ptr = NullPtr \/ s.len = 0 THEN [heap |-> h, n |-> NullN]
    ELSE [heap |-> h, n |-> [ptr |-> s.ptr, len |-> s.len]]

fromSlice(rt, h, s, cpy) ==
    IF rt = "java" THEN android_fromSlice(h, s, cpy) ELSE darwin_fromSlice(h, s, cpy)

\* seq_android toSlice: C.GoBytes copies into Go memory, then the source is freed
android_toSlice(h, s, cpy) ==
    IF s.ptr = NullPtr \/ s.len = 0 THEN [heap |-> h, b |-> NilSlice]
    ELSE IF cpy
    THEN [heap |-> Free(Own(h, "go", Pointee(h, s)), s.ptr),
          b |-> [ptr |-> NewPtr(h), len |-> s.len]]
    ELSE [heap |-> h, b |-> [ptr |-> s.ptr, len |-> s.len]]

\* seq_darwin toSlice
darwin_toSlice(h, s, cpy) ==
    IF s.ptr = NullPtr \/ s.len = 0 THEN [heap |-> h, b |-> NilSlice]
    ELSE IF cpy
    THEN [heap |-> Free(Own(h, "go", Pointee(h, s)), s.ptr),
          b |-> [ptr |-> NewPtr(h), len |-> s.len]]
    ELSE [heap |-> h, b |-> [ptr |-> s.ptr, len |-> s.len]]

toSlice(rt, h, s, cpy) ==
    IF rt = "java" THEN android_toSlice(h, s, cpy) ELSE darwin_toSlice(h, s, cpy)


-----------------------------------------------------------------------------
(* One crossing: a string sent out with encodeString and a string received *)
(* with decodeString, or a byte array through fromSlice / toSlice          *)

ByteVals == {1, 2}
ByteArrays == UNION {[1..n -> ByteVals] : n \in 0..MaxBytes}

\* the Go string s lies in Go memory
StringStart(rt, s) ==
    [heap |-> Own(HeapEmpty, "go", s),
     wire |-> [tag |-> "string", rt |-> rt, stage |-> "start", S |-> s,
               src |-> [ptr |-> 1, len |-> Len(s)], n |-> NullN, fstr |-> <<>>,
               got |-> <<>>, consumed |-> NullPtr, fn |-> "string", cpy |-> FALSE]]

\* the source buffer B: the Go slice handed to fromSlice, or what the native
\* side hands to toSlice (a malloc'ed copy in retained mode, memory of the
\* foreign runtime in transient mode)
BytesStart(rt, fn, cpy, b, isNil) ==
    [heap |-> IF isNil THEN HeapEmpty
              ELSE IF fn = "fromSlice" THEN Own(HeapEmpty, "go", b)
              ELSE IF cpy THEN Malloc(HeapEmpty, b)
              ELSE Own(HeapEmpty, "foreign", b),
     wire |-> [tag |-> "bytes", rt |-> rt, stage |-> "start", S |-> b,
               src |-> IF isNil THEN NilSlice ELSE [ptr |-> 1, len |-> Len(b)],
               n |-> NullN, fstr |-> <<>>, got |-> <<>>, consumed |-> NullPtr,
               fn |-> fn, cpy |-> cpy]]

\* the native side hands over the null nbyteslice for an empty array
MemStarts ==
    {StringStart(rt, s) : rt \in Runtimes, s \in Strings}
    \cup {BytesStart(rt, "fromSlice", cpy, b, FALSE) :
            rt \in Runtimes, cpy \in BOOLEAN, b \in ByteArrays}
    \cup {BytesStart(rt, "toSlice", cpy, b, FALSE) :
            rt \in Runtimes, cpy \in BOOLEAN, b \in ByteArrays \ {<<>>}}
    \cup {BytesStart(rt, fn, cpy, <<>>, TRUE) :
            rt \in Runtimes, fn \in {"fromSlice", "toSlice"}, cpy \in BOOLEAN}

InitMem ==
    /\ RegIdle /\ ThrIdle /\ GenIdle /\ EmitIdle /\ ShimIdle /\ SupIdle /\ PkgIdle
    /\ \E st \in MemStarts : heap = st.heap /\ wire = st.wire

\* the generated Go code encodes a string argument
SendString ==
    /\ wire.tag = "string" /\ wire.stage = "start"
    /\ heap' = encodeString(wire.rt, heap, wire.S).heap
    /\ wire' = [wire EXCEPT !.n = encodeString(wire.rt, heap, wire.S).n,
                            !.stage = "encoded"]
    /\ UNCHANGED <<regVars, thrVars, genVars, emitVars, shimVars, supVars, pkgVars>>

\* decodeString applied to what encodeString returned
DecodeEncoded ==
    /\ wire.tag = "string" /\ wire.stage = "encoded"
    /\ heap' = decodeString(wire.rt, heap, wire.n).heap
    /\ wire' = [wire EXCEPT !.got = decodeString(wire.rt, heap, wire.n).s,
                            !.consumed = wire.n.ptr,
                            !.stage = "looped"]
    /\ UNCHANGED <<regVars, thrVars, genVars, emitVars, shimVars, supVars, pkgVars>>

\* the native shim turns the nstring into a foreign string
NativeTake ==
    /\ wire.tag = "string" /\ wire.stage = "encoded"
    /\ heap' = go_seq_to_foreign_string(wire.rt, heap, wire.n).heap
    /\ wire' = [wire EXCEPT !.fstr = go_seq_to_foreign_string(wire.rt, heap, wire.n).fstr,
                            !.consumed = wire.n.ptr,
                            !.n = NullN,
                            !.stage = "foreign"]
    /\ UNCHANGED <<regVars, thrVars, genVars, emitVars, shimVars, supVars, pkgVars>>

\* the native shim turns a foreign string result into an nstring
NativeGive ==
    /\ wire.tag = "string" /\ wire.stage = "foreign"
    /\ heap' = go_seq_from_foreign_string(wire.rt, heap, wire.fstr).heap
    /\ wire' = [wire EXCEPT !.n = go_seq_from_foreign_string(wire.rt, heap, wire.fstr).n,
                            !.consumed = NullPtr,
                            !.stage = "returned"]
    /\ UNCHANGED <<regVars, thrVars, genVars, emitVars, shimVars, supVars, pkgVars>>

\* the generated Go code decodes a string result
ReceiveString ==
    /\ wire.tag = "string" /\ wire.stage = "returned"
    /\ heap' = decodeString(wire.rt, heap, wire.n).heap
    /\ wire' = [wire EXCEPT !.got = decodeString(wire.rt, heap, wire.n).s,
                            !.consumed = wire.n.ptr,
                            !.stage = "decoded"]
    /\ UNCHANGED <<regVars, thrVars, genVars, emitVars, shimVars, supVars, pkgVars>>

\* a byte array crosses through fromSlice or toSlice
CrossBytes ==
    /\ wire.tag = "bytes" /\ wire.stage = "start"
    /\ heap' = IF wire.fn = "fromSlice"
               THEN fromSlice(wire.rt, heap, wire.src, wire.cpy).heap
               ELSE toSlice(wire.rt, heap, wire.src, wire.cpy).heap
    /\ wire' = [wire EXCEPT !.n = IF wire.fn = "fromSlice"
                                  THEN fromSlice(wire.rt, heap, wire.src, wire.cpy).n
                                  ELSE toSlice(wire.rt, heap, wire.src, wire.cpy).b,
                            !.stage = "crossed"]
    /\ UNCHANGED <<regVars, thrVars, genVars, emitVars, shimVars, supVars, pkgVars>>

\* the owner of the source buffer B writes into it after the crossing
Mutate(i, v) ==
    /\ wire.tag = "bytes" /\ wire.stage = "crossed"
    /\ wire.src.ptr # NullPtr
    /\ i \in 1..wire.src.len
    /\ heap.bufs[wire.src.ptr].live
    /\ heap.bufs[wire.src.ptr].data[i] # v
    /\ heap' = [heap EXCEPT !.bufs[wire.src.ptr].data[i] = v]
    /\ wire' = [wire EXCEPT !.stage = "mutated"]
    /\ UNCHANGED <<regVars, thrVars, genVars, emitVars, shimVars, supVars, pkgVars>>

NextMem ==
    \/ SendString
    \/ DecodeEncoded
    \/ NativeTake
    \/ NativeGive
    \/ ReceiveString
    \/ CrossBytes
    \/ \E i \in 1..MaxBytes, v \in ByteVals : Mutate(i, v)

SpecMem == InitMem /\ [][NextMem]_vars

-----------------------------------------------------------------------------
(* The native shims: the C function bodies genCMethodBody, genC and         *)
(* genCFuncBody emit, with the Go statements that encode the arguments and  *)
(* decode the result at the other end of each slot                          *)

modeTransient == "transient"
modeRetained == "retained"

\* one emitted statement: what it does, its operand, a number it carries (a
\* frame size or a copy flag) and the parameter slot it belongs to (0: none)
St(op, arg, n, slot) == [op |-> op, arg |-> arg, n |-> n, slot |-> slot]

toCFlag(v) == IF v THEN 1 ELSE 0

IsPrim(t) == Kind(t) \in {"Int", "Boolean"}

\* ClassGen.genWrite: the Go statement that encodes an argument
genWriteStmt(t, mode, slot) ==
    CASE Kind(t) = "String" -> St("encodeString", t, 0, slot)
      [] Kind(t) = "Array" -> St("fromSlice", t, toCFlag(mode = modeRetained), slot)
      [] Kind(t) = "Object" -> St("ToRefNum", t, 0, slot)
      [] OTHER -> St("go_prim", t, 0, slot)

\* ClassGen.genRead: the Go statement that decodes a result
genReadStmt(t, mode) ==
    CASE Kind(t) = "String" -> St("decodeString", t, 0, 0)
      [] Kind(t) = "Array" -> St("toSlice", t, toCFlag(mode = modeRetained), 0)
      [] Kind(t) = "Object" -> St("FromRefNum", t, 0, 0)
      [] OTHER -> St("go_prim", t, 0, 0)

\* genCToJava with the copy flag of a byte array set
genCToJava_copy(t, slot) ==
    CASE Kind(t) = "String" -> St("to_string", t, 0, slot)
      [] Kind(t) = "Array" -> St("to_bytearray", t, 1, slot)
      [] Kind(t) = "Object" -> St("from_refnum", t, 0, slot)
      [] OTHER -> St("arg_prim", t, 0, slot)

\* ClassGen.genCToJava: the C statement that turns a parameter into a Java value
genCToJava(t, slot) ==
    CASE Kind(t) = "String" -> St("to_string", t, 0, slot)
      [] Kind(t) = "Array" -> St("to_bytearray", t, 0, slot)
      [] Kind(t) = "Object" -> St("from_refnum", t, 0, slot)
      [] OTHER -> St("arg_prim", t, 0, slot)

\* ClassGen.genJavaToC: the C statement that turns the Java result into a C value
genJavaToC(t) ==
    CASE Kind(t) = "String" -> St("from_string", t, 0, 0)
      [] Kind(t) = "Array" -> St("from_bytearray", t, 1, 0)
      [] Kind(t) = "Object" -> St("to_refnum", "res", 0, 0)
      [] OTHER -> St("res_prim", t, 0, 0)

\* ClassGen.genCRetClear: if (_exc != NULL) { res = 0 or NULL }
genCRetClear(t) == St("ret_clear", IF IsPrim(t) THEN "0" ELSE "NULL", 0, 0)

\* genCTail converting the result before it is cleared
genCTail_convfirst(f) ==
    <<St("get_exception", "_exc", 0, 0), St("to_refnum", "_exc", 0, 0)>>
    \o (IF f.Ret # Nil THEN <<genJavaToC(f.Ret), genCRetClear(f.Ret)>> ELSE <<>>)
    \o <<St("pop", "", 0, 0),
         St("return", IF f.Ret # Nil THEN "ret_T" ELSE "jint", 0, 0)>>

\* the tail of a Java shim after the call: exception, result, frame, return
genCTail(f) ==
    <<St("get_exception", "_exc", 0, 0), St("to_refnum", "_exc", 0, 0)>>
    \o (IF f.Ret # Nil THEN <<genCRetClear(f.Ret), genJavaToC(f.Ret)>> ELSE <<>>)
    \o <<St("pop", "", 0, 0),
         St("return", IF f.Ret # Nil THEN "ret_T" ELSE "jint", 0, 0)>>

\* genCMethodBody with the frame left in place
genCMethodBody_nopop(f, virtual) ==
    <<St("push", "", Len(f.Params) + 1, 0), St("from_refnum", "this", 0, 0)>>
    \o [i \in 1..Len(f.Params) |-> genCToJava(f.Params[i], i)]
    \o <<St("call", IF virtual THEN "CallNonvirtual" ELSE "Call", 0, 0)>>
    \o SelectSeq(genCTail(f), LAMBDA st : st.op # "pop")

\* ClassGen.genCMethodBody: the body of a cproxy or csuper shim
genCMethodBody(f, virtual) ==
    <<St("push", "", Len(f.Params) + 1, 0), St("from_refnum", "this", 0, 0)>>
    \o [i \in 1..Len(f.Params) |-> genCToJava(f.Params[i], i)]
    \o <<St("call", IF virtual THEN "CallNonvirtual" ELSE "Call", 0, 0)>>
    \o genCTail(f)

\* ClassGen.genC: the body of the static shim of one function or constructor
genCStaticBody(f) ==
    <<St("push", "", Len(f.Params), 0)>>
    \o [i \in 1..Len(f.Params) |-> genCToJava(f.Params[i], i)]
    \o <<St("call", IF f.Constructor THEN "NewObject" ELSE "CallStatic", 0, 0)>>
    \o genCTail(f)

\* ClassGen.genCMethodDecl / genCFuncDecl: the return type of the shim
genCMethodDecl(f) == IF f.Ret # Nil THEN "ret_T" ELSE "jint"

\* the Go side of the slots: genFuncBody writes every argument in transient
\* mode, genFuncRet reads the result in retained mode
genGoArgs(f) == [i \in 1..Len(f.Params) |-> genWriteStmt(f.Params[i], modeTransient, i)]
genGoRet(f) == IF f.Ret # Nil THEN <<genReadStmt(f.Ret, modeRetained)>> ELSE <<>>


\* ObjcWrapper.genCToObjC: the C statement that turns a parameter into an
\* Objective-C value
genCToObjC(t, mode, slot) ==
    CASE ObjcType[t].Kind = "String" -> St("to_string", t, 0, slot)
      [] ObjcType[t].Kind = "Data" ->
            St("to_bytearray", t, toCFlag(mode = modeRetained), slot)
      [] ObjcType[t].Kind = "Class" -> St("from_refnum", t, 0, slot)
      [] OTHER -> St("arg_prim", t, 0, slot)

\* ObjcWrapper.genObjCToC: the C statement that turns an Objective-C value
\* into a C value
genObjCToC(name, t, mode) ==
    CASE ObjcType[t].Kind = "String" -> St("from_string", t, 0, 0)
      [] ObjcType[t].Kind = "Data" ->
            St("from_bytearray", t, toCFlag(mode = modeRetained), 0)
      [] ObjcType[t].Kind = "Class" -> St("to_refnum", name, 0, 0)
      [] OTHER -> St("res_prim", t, 0, 0)

\* ObjcWrapper.genWrite: the Go statement that encodes an argument
ObjcWrapper_genWrite(t, slot) ==
    CASE ObjcType[t].Kind = "String" -> St("encodeString", t, 0, slot)
      [] ObjcType[t].Kind = "Data" -> St("fromSlice", t, toCFlag(FALSE), slot)
      [] ObjcType[t].Kind = "Class" -> St("ToRefNum", t, 0, slot)
      [] OTHER -> St("go_prim", t, 0, slot)

\* ObjcWrapper.genRead: the Go statement that decodes a result
ObjcWrapper_genRead(t) ==
    CASE ObjcType[t].Kind = "String" -> St("decodeString", t, 0, 0)
      [] ObjcType[t].Kind = "Data" -> St("toSlice", t, toCFlag(TRUE), 0)
      [] ObjcType[t].Kind = "Class" -> St("FromRefNum", t, 0, 0)
      [] OTHER -> St("go_prim", t, 0, 0)

\* the parameters before the trailing error parameter
ValueParams(f) == IF returnsErr(f) THEN Len(f.Params) - 1 ELSE Len(f.Params)

\* the result both function bodies convert: a BOOL next to the error
\* parameter is dropped
ObjcRet(f) ==
    IF f.Ret # Nil /\ returnsErr(f) /\ ObjcType[f.Ret].Kind = "Bool" THEN Nil ELSE f.Ret

\* genCFuncBody taking the error whenever the callee set it
genCFuncBody_anyerr(f, super) ==
    (IF f.Static THEN <<>> ELSE <<St("from_refnum", "this", 0, 0)>>)
    \o [i \in 1..ValueParams(f) |-> genCToObjC(f.Params[i], modeTransient, i)]
    \o (IF returnsErr(f) THEN <<St("err_decl", "err", 0, 0)>> ELSE <<>>)
    \o (IF f.Constructor THEN <<St("alloc", "_this", 0, 0)>> ELSE <<>>)
    \o (IF super THEN <<St("super_struct", "_super", 0, 0)>> ELSE <<>>)
    \o <<St("call", IF super THEN "objc_msgSendSuper" ELSE "objc_msgSend", 0, 0)>>
    \o (IF returnsErr(f)
        THEN <<St("err_select", "err", 0, 0),
               genObjCToC("_err", "NSErrorPP", modeRetained)>>
        ELSE <<>>)
    \o (IF ObjcRet(f) # Nil THEN <<genObjCToC("res", ObjcRet(f), modeRetained)>> ELSE <<>>)
    \o <<St("return",
            CASE ObjcRet(f) # Nil /\ returnsErr(f) -> "ret_T"
              [] ObjcRet(f) # Nil -> "_res"
              [] returnsErr(f) -> "_err"
              [] OTHER -> "void", 0, 0)>>

\* ObjcWrapper.genCFuncBody: the body of a cproxy or csuper shim
genCFuncBody(f, super) ==
    (IF f.Static THEN <<>> ELSE <<St("from_refnum", "this", 0, 0)>>)
    \o [i \in 1..ValueParams(f) |-> genCToObjC(f.Params[i], modeTransient, i)]
    \o (IF returnsErr(f) THEN <<St("err_decl", "err", 0, 0)>> ELSE <<>>)
    \o (IF f.Constructor THEN <<St("alloc", "_this", 0, 0)>> ELSE <<>>)
    \o (IF super THEN <<St("super_struct", "_super", 0, 0)>> ELSE <<>>)
    \o <<St("call", IF super THEN "objc_msgSendSuper" ELSE "objc_msgSend", 0, 0)>>
    \o (IF returnsErr(f)
        THEN <<St("err_select", IF f.Ret # Nil THEN "!res && err" ELSE "err", 0, 0),
               genObjCToC("_err", "NSErrorPP", modeRetained)>>
        ELSE <<>>)
    \o (IF ObjcRet(f) # Nil THEN <<genObjCToC("res", ObjcRet(f), modeRetained)>> ELSE <<>>)
    \o <<St("return",
            CASE ObjcRet(f) # Nil /\ returnsErr(f) -> "ret_T"
              [] ObjcRet(f) # Nil -> "_res"
              [] returnsErr(f) -> "_err"
              [] OTHER -> "void", 0, 0)>>

\* ObjcWrapper.genFuncBody: the Go statements of the arguments and the result
ObjcWrapper_genGoArgs(f) ==
    [i \in 1..ValueParams(f) |-> ObjcWrapper_genWrite(f.Params[i], i)]
ObjcWrapper_genGoRet(f) ==
    IF ObjcRet(f) # Nil THEN <<ObjcWrapper_genRead(ObjcRet(f))>> ELSE <<>>


\* one function a shim is generated for
SFunc(params, ret, static, constructor) ==
    [Params |-> params, Ret |-> ret, Static |-> static, Constructor |-> constructor]

\* Java methods (instance) and functions (static, constructors included)
JavaShimMethods ==
    {SFunc(<<>>, Nil, FALSE, FALSE), SFunc(<<"int">>, "int", FALSE, FALSE),
     SFunc(<<"bytes">>, "bytes", FALSE, FALSE),
     SFunc(<<"string", "Obj">>, "string", FALSE, FALSE),
     SFunc(<<"bytes", "boolean", "bytes">>, Nil, FALSE, FALSE),
     SFunc(<<"Obj">>, "Obj", FALSE, FALSE)}
JavaShimFuncs ==
    {SFunc(<<>>, "Obj", TRUE, TRUE), SFunc(<<"bytes", "int">>, "Obj", TRUE, TRUE),
     SFunc(<<"string">>, "bytes", TRUE, FALSE), SFunc(<<"int">>, Nil, TRUE, FALSE)}

\* Objective-C methods, class methods and constructors
ObjcShimFuncs ==
    {SFunc(<<"int">>, Nil, FALSE, FALSE), SFunc(<<"data">>, "data", FALSE, FALSE),
     SFunc(<<"str", "NSErrorPP">>, "bool", FALSE, FALSE),
     SFunc(<<"data", "NSErrorPP">>, "data", FALSE, FALSE),
     SFunc(<<"cls">>, "cls", FALSE, FALSE), SFunc(<<"NSErrorPP">>, Nil, FALSE, FALSE),
     SFunc(<<"int">>, "bool", FALSE, FALSE),
     SFunc(<<"data">>, "str", TRUE, FALSE), SFunc(<<"str">>, "cls", TRUE, TRUE)}

\* the shim ClassGen.genC writes for one method (cproxy, csuper) or one
\* function (cproxy_s), with the Go statements ClassGen.genFuncBody writes
JavaShim(kind, f) ==
    [rt |-> "android", kind |-> kind, f |-> f,
     body |-> IF kind = "cproxy_s" THEN genCStaticBody(f)
              ELSE genCMethodBody(f, kind = "csuper"),
     decl |-> genCMethodDecl(f),
     goArgs |-> genGoArgs(f), goRet |-> genGoRet(f)]

\* ObjcWrapper.genFuncDecl: the result shape of the Go signature; reading
\* ret.Kind faults when the function has the error parameter and no result
ObjcWrapper_genFuncDecl(f) ==
    IF f.Ret # Nil \/ returnsErr(f)
    THEN IF f.Ret = Nil THEN "fault"
         ELSE IF ObjcType[f.Ret].Kind = "Bool" /\ returnsErr(f) THEN "error"
         ELSE IF returnsErr(f) THEN "value_error"
         ELSE "value"
    ELSE "nothing"

\* ObjcWrapper.genFuncBody: the result shape of the return statement of the
\* Go body
ObjcWrapper_genFuncBodyRet(f) ==
    CASE ObjcRet(f) # Nil /\ returnsErr(f) -> "value_error"
      [] ObjcRet(f) # Nil -> "value"
      [] returnsErr(f) -> "error"
      [] OTHER -> "nothing"

\* ObjcWrapper.genCFuncDecl: the result shape of the return type of the shim
\* (ret_<type>, the C type, int, void)
ObjcWrapper_genCFuncDecl(f) ==
    CASE ObjcRet(f) # Nil /\ returnsErr(f) -> "value_error"
      [] ObjcRet(f) # Nil -> "value"
      [] returnsErr(f) -> "error"
      [] OTHER -> "nothing"

\* the result shape of the return statement genCFuncBody ends the shim with
ShapeOfReturn(form) ==
    CASE form = "ret_T" -> "value_error"
      [] form = "_res" -> "value"
      [] form = "_err" -> "error"
      [] OTHER -> "nothing"

\* the shim ObjcWrapper.genM writes, with the Go statements of genFuncBody
\* (none when genFuncDecl faults on the function) and the result shapes of
\* the Go signature, the Go return statement and the C declaration
ObjcShim(kind, f) ==
    [rt |-> "darwin", kind |-> kind, f |-> f,
     body |-> genCFuncBody(f, kind = "csuper"),
     decl |-> genCFuncBody(f, kind = "csuper")[Len(genCFuncBody(f, kind = "csuper"))].arg,
     sig |-> ObjcWrapper_genFuncDecl(f),
     goReturn |-> ObjcWrapper_genFuncBodyRet(f),
     cdecl |-> ObjcWrapper_genCFuncDecl(f),
     goArgs |-> IF ObjcWrapper_genFuncDeclFaults(f) THEN <<>> ELSE ObjcWrapper_genGoArgs(f),
     goRet |-> IF ObjcWrapper_genFuncDeclFaults(f) THEN <<>> ELSE ObjcWrapper_genGoRet(f)]

Shims ==
    {JavaShim(k, f) : k \in {"cproxy", "csuper"}, f \in JavaShimMethods}
    \cup {JavaShim("cproxy_s", f) : f \in JavaShimFuncs}
    \cup {ObjcShim("cproxy", f) : f \in ObjcShimFuncs}
    \cup {ObjcShim("csuper", f) : f \in {g \in ObjcShimFuncs : ~g.Static}}

\* the state of one execution of a shim: the statement it is at, the local
\* frames (pushed now, pushed and popped so far, the size asked for), the
\* references created inside and outside a frame, the byte-array copy flags
\* the conversions ran with, the exception (pending, fetched, its handle), the
\* result (as the call left it, as converted), whether a conversion ran after
\* a pop, and what the shim returned
ShimStart ==
    [pc |-> 1, frames |-> 0, pushes |-> 0, pops |-> 0, cap |-> 0,
     refs |-> 0, outside |-> 0, flags |-> {}, called |-> FALSE,
     pending |-> FALSE, raised |-> FALSE, exc |-> "null", excRef |-> NullRefNum,
     res |-> "none", junk |-> FALSE, cres |-> "none", late |-> FALSE,
     done |-> FALSE, leaked |-> FALSE,
     ret |-> [res |-> "none", exc |-> NullRefNum, form |-> "none"]]

InitShim ==
    /\ RegIdle /\ ThrIdle /\ GenIdle /\ EmitIdle /\ MemIdle /\ SupIdle /\ PkgIdle
    /\ shim \in Shims
    /\ cst = ShimStart

Running == shim # NoRec /\ cst.pc <= Len(shim.body)
Cur == shim.body[cst.pc]

\* a reference created by a statement lands in the current frame, or outside
\* every frame when none is pushed
NewRefs(c, k) ==
    IF c.frames > 0 THEN [c EXCEPT !.refs = @ + k] ELSE [c EXCEPT !.outside = @ + k]

Advance(c) == [c EXCEPT !.pc = @ + 1]

\* go_seq_push_local_frame(env, n)
PushFrame ==
    /\ Running /\ Cur.op = "push"
    /\ cst' = Advance([cst EXCEPT !.frames = @ + 1, !.pushes = @ + 1, !.cap = Cur.n])
    /\ UNCHANGED <<regVars, thrVars, genVars, emitVars, memVars, shim, supVars, pkgVars>>

\* the receiver and the parameters become foreign values
ConvertArg ==
    /\ Running /\ Cur.op \in {"from_refnum", "to_string", "to_bytearray", "arg_prim"}
    /\ cst' = Advance(NewRefs([cst EXCEPT !.flags =
                               IF Cur.op = "to_bytearray"
                               THEN @ \cup {<<Cur.slot, Cur.n>>} ELSE @,
                             !.late = @ \/ cst.pops > 0],
                           IF Cur.op = "arg_prim" THEN 0 ELSE 1))
    /\ UNCHANGED <<regVars, thrVars, genVars, emitVars, memVars, shim, supVars, pkgVars>>

\* declarations before an Objective-C call: the NSError local, alloc, the
\* objc_super struct
Declare ==
    /\ Running /\ Cur.op \in {"err_decl", "alloc", "super_struct"}
    /\ cst' = Advance(cst)
    /\ UNCHANGED <<regVars, thrVars, genVars, emitVars, memVars, shim, supVars, pkgVars>>

\* what the call can leave in res: nothing for a void function, an
\* unspecified value when a Java exception is pending
Results(raises) ==
    IF shim.f.Ret = Nil THEN {"none"}
    ELSE IF raises /\ shim.rt = "android" THEN {"zero", "junk"}
    ELSE {"zero", "val"}

IsRefType(t) ==
    IF t = Nil THEN FALSE ELSE Kind(t) \in {"String", "Array", "Object"}

\* the foreign call: it may raise (Java) or set the error parameter
\* (Objective-C)
CallForeign(raises, r) ==
    /\ Running /\ Cur.op = "call"
    /\ r \in Results(raises)
    /\ cst' = Advance(NewRefs([cst EXCEPT !.called = TRUE, !.pending = raises,
                                       !.raised = raises, !.res = r,
                                       !.junk = (r = "junk")],
                           IF shim.rt = "android" /\ r = "val" /\ IsRefType(shim.f.Ret)
                           THEN 1 ELSE 0))
    /\ UNCHANGED <<regVars, thrVars, genVars, emitVars, memVars, shim, supVars, pkgVars>>

\* go_seq_get_exception: the pending exception, cleared, or NULL
GetException ==
    /\ Running /\ Cur.op = "get_exception"
    /\ cst' = Advance(NewRefs([cst EXCEPT !.exc = IF cst.pending THEN "e" ELSE "null",
                                       !.pending = FALSE],
                           IF cst.pending THEN 1 ELSE 0))
    /\ UNCHANGED <<regVars, thrVars, genVars, emitVars, memVars, shim, supVars, pkgVars>>

\* if (!res && err != nil) { _err = err; }  (without !res for a void method)
SelectError ==
    /\ Running /\ Cur.op = "err_select"
    /\ cst' = Advance([cst EXCEPT !.exc =
                      IF cst.pending /\ (Cur.arg = "err" \/ cst.res = "zero")
                      THEN "e" ELSE "null"])
    /\ UNCHANGED <<regVars, thrVars, genVars, emitVars, memVars, shim, supVars, pkgVars>>

\* go_seq_to_refnum of the exception: NullRefNum for NULL, else its handle
ExcToRefnum ==
    /\ Running /\ Cur.op = "to_refnum" /\ Cur.arg \in {"_exc", "_err"}
    /\ cst' = Advance([cst EXCEPT !.excRef =
                      IF cst.exc = "null" THEN NullRefNum ELSE ExcHandle])
    /\ UNCHANGED <<regVars, thrVars, genVars, emitVars, memVars, shim, supVars, pkgVars>>

\* if (_exc != NULL) { res = 0; }
RetClear ==
    /\ Running /\ Cur.op = "ret_clear"
    /\ cst' = Advance([cst EXCEPT !.res = IF cst.exc # "null" THEN "zero" ELSE @])
    /\ UNCHANGED <<regVars, thrVars, genVars, emitVars, memVars, shim, supVars, pkgVars>>

\* the result becomes a C value
ConvertResult ==
    /\ Running /\ Cur.op \in {"from_string", "from_bytearray", "res_prim", "to_refnum"}
    /\ Cur.arg \notin {"_exc", "_err"}
    /\ cst' = Advance([cst EXCEPT !.cres = cst.res,
                               !.flags = IF Cur.op = "from_bytearray"
                                         THEN @ \cup {<<0, Cur.n>>} ELSE @,
                               !.late = @ \/ cst.pops > 0])
    /\ UNCHANGED <<regVars, thrVars, genVars, emitVars, memVars, shim, supVars, pkgVars>>

\* go_seq_pop_local_frame(env)
PopFrame ==
    /\ Running /\ Cur.op = "pop"
    /\ cst' = Advance([cst EXCEPT !.frames = @ - 1, !.pops = @ + 1, !.refs = 0])
    /\ UNCHANGED <<regVars, thrVars, genVars, emitVars, memVars, shim, supVars, pkgVars>>

\* the return statement (or the end of a void Objective-C shim)
Return ==
    /\ Running /\ Cur.op = "return"
    /\ cst' = [cst EXCEPT !.pc = Len(shim.body) + 1, !.done = TRUE,
                          !.leaked = cst.frames > 0,
                          !.ret = [res |-> IF Cur.arg \in {"ret_T", "_res"}
                                           THEN cst.cres ELSE "none",
                                   exc |-> IF Cur.arg \in {"ret_T", "jint", "_err"}
                                           THEN cst.excRef ELSE NullRefNum,
                                   form |-> Cur.arg]]
    /\ UNCHANGED <<regVars, thrVars, genVars, emitVars, memVars, shim, supVars, pkgVars>>

NextShim ==
    \/ PushFrame
    \/ ConvertArg
    \/ Declare
    \/ \E raises \in BOOLEAN, r \in {"none", "zero", "val", "junk"} : CallForeign(raises, r)
    \/ GetException
    \/ SelectError
    \/ ExcToRefnum
    \/ RetClear
    \/ ConvertResult
    \/ PopFrame
    \/ Return

SpecShim == InitShim /\ [][NextShim]_vars

-----------------------------------------------------------------------------
(* ObjcWrapper.isFuncSupported asked about one method                       *)

MaxParams == 2

\* the types a parameter or a result is drawn from
ObjcTypeNames == DOMAIN ObjcType

\* the methods asked about: up to MaxParams parameters, with or without result
ObjcMethods ==
    {[Params |-> ps, Ret |-> r] :
        ps \in UNION {[1..n -> ObjcTypeNames] : n \in 0..MaxParams},
        r \in ObjcTypeNames \cup {Nil}}

InitSup ==
    /\ RegIdle /\ ThrIdle /\ GenIdle /\ EmitIdle /\ MemIdle /\ ShimIdle /\ PkgIdle
    /\ meth \in {[tag |-> "method", f |-> f] : f \in ObjcMethods}
    /\ verdict = NoRec

\* a generator pass asks whether the method is supported
AskSupported ==
    /\ meth # NoRec /\ verdict = NoRec
    /\ verdict' = [tag |-> "verdict", supported |-> ObjcWrapper_isFuncSupported(meth.f)]
    /\ UNCHANGED <<regVars, thrVars, genVars, emitVars, memVars, shimVars, meth, pkgVars>>

NextSup == AskSupported

SpecSup == InitSup /\ [][NextSup]_vars

-----------------------------------------------------------------------------
(* Init of both generators: the list of Go packages to generate             *)

MaxTypes == 3

\* names and paths are sequences of characters

\* strings.Replace(s, ".", "/", -1)
DotsToSlashes(s) == [i \in 1..Len(s) |-> IF s[i] = "." THEN "/" ELSE s[i]]

\* path.Dir of a relative, clean path: what precedes the last slash, "." if
\* there is none
Slashes(s) == {i \in 1..Len(s) : s[i] = "/"}
Dir(s) ==
    IF Slashes(s) = {} THEN <<".">>
    ELSE SubSeq(s, 1, (CHOOSE i \in Slashes(s) : \A j \in Slashes(s) : j <= i) - 1)

\* Java class names: two classes of one package, a class of the default
\* package, a class whose name extends another class's name, a second package
JavaNames ==
    {<<"p", ".", "A">>, <<"p", ".", "B">>, <<"A">>,
     <<"p", ".", "A", ".", "B">>, <<"q", ".", "A">>}

\* Objective-C types: module, Go name, and whether the type is generated
ObjcNamed ==
    {[Module |-> m, GoName |-> n, Generated |-> g] :
        m \in {<<"M">>, <<"M", "/", "N">>}, n \in {<<"N">>, <<"T">>}, g \in BOOLEAN}

TypeLists(pool) == UNION {[1..n -> pool] : n \in 1..MaxTypes}

NoPkgs == [pkgs |-> <<>>, pkgSet |-> {}]

\* ClassGen.Init, the loop over the classes from class i on: clsPkg and
\* typePkg are appended to jpkgs unless pkgSet holds them
RECURSIVE ClassGen_Init(_, _, _)
ClassGen_Init(list, i, g) ==
    IF i > Len(list) THEN g
    ELSE LET clsPkg == DotsToSlashes(list[i])
             typePkg == Dir(clsPkg)
             g1 == IF clsPkg \notin g.pkgSet
                   THEN [pkgs |-> Append(g.pkgs, clsPkg), pkgSet |-> g.pkgSet \cup {clsPkg}]
                   ELSE g
             g2 == IF typePkg \notin g1.pkgSet
                   THEN [pkgs |-> Append(g1.pkgs, typePkg),
                         pkgSet |-> g1.pkgSet \cup {typePkg}]
                   ELSE g1
         IN  ClassGen_Init(list, i + 1, g2)

\* ObjcWrapper.Init, the loop over the types from type i on: the module is
\* appended to pkgNames unless pkgSet holds it, typePkg is appended always
RECURSIVE ObjcWrapper_Init(_, _, _)
ObjcWrapper_Init(list, i, g) ==
    IF i > Len(list) THEN g
    ELSE LET typePkg == list[i].Module \o <<"/">> \o list[i].GoName
             g1 == IF list[i].Module \notin g.pkgSet
                   THEN [pkgs |-> Append(g.pkgs, list[i].Module),
                         pkgSet |-> g.pkgSet \cup {list[i].Module}]
                   ELSE g
             g2 == [pkgs |-> Append(g1.pkgs, typePkg), pkgSet |-> g1.pkgSet]
         IN  ObjcWrapper_Init(list, i + 1, g2)

InitPkg ==
    /\ RegIdle /\ ThrIdle /\ GenIdle /\ EmitIdle /\ MemIdle /\ ShimIdle /\ SupIdle
    /\ \/ types \in {[tag |-> "types", lang |-> "java", list |-> l] :
                        l \in TypeLists(JavaNames)}
       \/ types \in {[tag |-> "types", lang |-> "objc", list |-> l] :
                        l \in TypeLists(ObjcNamed)}
    /\ gen = NoRec

\* Init of the generator the types are for
InitGenerator ==
    /\ types # NoRec /\ gen = NoRec
    /\ gen' = [tag |-> "gen",
               pkgs |-> IF types.lang = "java"
                        THEN ClassGen_Init(types.list, 1, NoPkgs).pkgs
                        ELSE ObjcWrapper_Init(types.list, 1, NoPkgs).pkgs,
               written |-> <<>>]
    /\ UNCHANGED <<regVars, thrVars, genVars, emitVars, memVars, shimVars, supVars, types>>

\* GenPackage(idx), called for every index of Packages() in turn: the file of
\* package pkgs[idx] is written
GenPackage ==
    /\ gen # NoRec
    /\ Len(gen.written) < Len(gen.pkgs)
    /\ gen' = [gen EXCEPT !.written = Append(@, gen.pkgs[Len(gen.written) + 1])]
    /\ UNCHANGED <<regVars, thrVars, genVars, emitVars, memVars, shimVars, supVars, types>>

NextPkg == InitGenerator \/ GenPackage

SpecPkg == InitPkg /\ [][NextPkg]_vars

-----------------------------------------------------------------------------
(* Properties of the registry *)

\* a step that performed a registration of a non-nil object
RegStep ==
    /\ last'.op = "register" /\ last'.arg # Nil
    /\ <<reg, last>>' # <<reg, last>>

\* C1 (identity stability): a registration of an object that is already
\* registered in that direction returns the handle it has, creates no entry
\* and leaves the refcount one above what it was; two registrations of the
\* same object in a row return the same handle, the second with refcount
\* 1 + the refcount after the first.
C1_IdentityStability ==
    [][RegStep =>
        LET k == <<last'.arg, last'.dir>>
        IN  /\ k \in DOMAIN reg.refs =>
                /\ last'.handle = reg.refs[k]
                /\ last'.cnt = reg.objs[reg.refs[k]].cnt + 1
                /\ Live(reg') = Live(reg)
            /\ (last.op = "register" /\ last.arg = last'.arg /\ last.dir = last'.dir) =>
                /\ last'.handle = last.handle
                /\ last'.cnt = last.cnt + 1
                /\ Cardinality(Live(reg')) = Cardinality(Live(reg))]_vars

\* the second registration of an object has happened, next to another live entry
C1_Witness ==
    /\ last.op = "register" /\ last.arg # Nil /\ last.cnt = 2
    /\ Cardinality(Live(reg)) = 2

RECURSIVE SumOver(_, _)
SumOver(f, S) ==
    IF S = {} THEN 0
    ELSE LET x == CHOOSE y \in S : TRUE
         IN  f[x] + SumOver(f, S \ {x})

\* release notifications a handle received beyond its registrations
Excess ==
    [h \in HandleRange |->
        hist[h].early + (IF hist[h].rel > hist[h].reg
                         THEN hist[h].rel - hist[h].reg ELSE 0)]

\* C2 (release boundary): a handle is in the registry exactly as long as it
\* has received fewer release notifications than registrations; every
\* notification beyond that, and every one for an unknown or zero handle, is
\* counted as a protocol violation, leaves the registry as it was and does
\* not terminate the process.
C2_ReleaseBoundary ==
    /\ [](/\ \A h \in HandleRange : h \in Live(reg) <=> hist[h].rel < hist[h].reg
          /\ violations = SumOver(Excess, HandleRange)
          /\ ~crashed)
    /\ [][violations' # violations => reg' = reg]_vars

\* a handle registered twice was released three times: gone, one violation
C2_Witness ==
    \E h \in HandleRange :
        /\ hist[h].reg = 2 /\ hist[h].rel = 3
        /\ h \notin Live(reg) /\ violations >= 1

\* C3 (handle shape): a registered handle is never 0, no two live references
\* share a handle, managed-owned objects have negative and foreign-owned
\* objects positive handles, and the generated decoders unwrap a Go object
\* exactly for a live negative handle and take the foreign branch only for a
\* positive one.
C3_HandleSigns ==
    /\ NullRefNum \notin Live(reg)
    /\ \A k1, k2 \in DOMAIN reg.refs : reg.refs[k1] = reg.refs[k2] => k1 = k2
    /\ {reg.refs[k] : k \in DOMAIN reg.refs} = Live(reg)
    /\ \A k \in DOMAIN reg.refs :
          /\ k[2] = "go" => reg.refs[k] < 0
          /\ k[2] = "foreign" => reg.refs[k] > 0
          /\ reg.objs[reg.refs[k]].obj = k[1]
    /\ last.op = "read" =>
          \A d \in {last.java, last.objc} :
              /\ d.kind = "go" <=> (last.handle < 0 /\ last.handle \in Live(reg))
              /\ d.kind \in {"proxy", "ref"} =>
                    (last.handle > 0 /\ last.handle \in Live(reg))

\* handles of both signs are live and a negative one was decoded to its Go object
C3_Witness ==
    /\ last.op = "read" /\ last.java.kind = "go" /\ last.objc.kind = "go"
    /\ \E h1, h2 \in Live(reg) : h1 < 0 /\ h2 > 0

\* C5 (references cross as handles): encoding nil yields handle 0 and
\* registers nothing, encoding an object yields a non-zero handle that
\* resolves to it, and decoding 0, an unknown or a released handle yields nil.
C5_NilAndHandles ==
    /\ [][(last'.op = "register" /\ last'.arg = Nil) =>
            (last'.handle = NullRefNum /\ reg' = reg)]_vars
    /\ [](last.op = "register" /\ last.arg # Nil =>
            (last.handle # NullRefNum /\ resolve(reg, last.handle) = last.arg))
    /\ [](last.op = "read" /\ last.handle \notin Live(reg) =>
            (last.java.val = Nil /\ last.objc.val = Nil))

\* a handle that was handed out and released since has been decoded
C5_Witness ==
    /\ last.op = "read" /\ last.handle < 0 /\ last.handle > reg.next
    /\ last.handle \notin Live(reg)
    /\ last.java.val = Nil

\* C4 (atomicity): at most one thread is inside an operation; whenever no
\* operation is in progress the table is what the operations give when run
\* one after the other in the order they took the lock; a resolve returns the
\* payload of an entry with a positive count or absent, which is what it
\* returns in that order, also next to the final release of its handle.
C4_Atomic ==
    /\ \A t1, t2 \in Threads :
          (pc[t1] \notin {"idle", "waiting"} /\ pc[t2] \notin {"idle", "waiting"})
              => t1 = t2
    /\ (\A t \in Threads : pc[t] \in {"idle", "waiting"}) => reg = Replay(oplog)
    /\ \A t \in Threads :
          tres[t] # NoSeen =>
              /\ tres[t].val \in ConcObjs \cup {Absent}
              /\ tres[t].val # Absent => tres[t].cnt > 0
              /\ (job[t].op = "resolve" /\ pc[t] \in {"unlock", "idle"}) =>
                    tres[t].val =
                        resolve(Replay(SubSeq(oplog, 1, job[t].pos)), job[t].arg)

\* a resolve was asked for while the other thread was half way through the
\* final release of the same handle (count zero, entry not yet removed), and
\* it has returned absent
C4_Witness ==
    \E t, u \in Threads :
        /\ t # u
        /\ job[t].op = "resolve" /\ job[t].during
        /\ pc[t] = "unlock" /\ tres[t].val = Absent
        /\ job[u].op = "release" /\ job[u].arg = job[t].arg
        /\ job[t].pos = job[u].pos + 1

-----------------------------------------------------------------------------
(* Properties of the generated entry points *)

Generated == body # NoRec
Called == outcome # NoRec

\* the supported variants of the FuncSet and their parameter counts
SupportedIdx == {k \in 1..Len(fs.Funcs) : isFuncSupported(fs.Funcs[k])}
Arities == {Len(fs.Funcs[k].Params) : k \in SupportedIdx}

\* the arguments are an argument list of variant k
Matches(k, args) ==
    /\ Len(args) = Len(fs.Funcs[k].Params)
    /\ \A j \in 1..Len(args) : Implements(args[j], fs.Funcs[k].Params[j])

Matching(args) == {k \in SupportedIdx : Matches(k, args)}

AllBranches ==
    UNION {{body.cases[c].branches[r] : r \in 1..Len(body.cases[c].branches)} :
             c \in 1..Len(body.cases)}

\* C6 (pin before call): every branch of a generated proxy method pins the
\* receiver and then calls the shim; at run time the pin comes immediately
\* before the shim call and never after it, it hands the shim the handle of
\* the receiver unchanged, and one call raises the pin count of the receiver
\* by exactly one and leaves every other pin count alone.
C6_PinBeforeCall ==
    /\ [](Generated /\ ~body.static =>
            /\ \A br \in AllBranches : br.call = <<"bind", "shim">>
            /\ Called /\ outcome.calls # <<>> =>
                  /\ outcome.trace = <<"bind", "shim">>
                  /\ outcome.shimThis = <<RecvHandle>>)
    /\ [][(outcome' # outcome /\ ~body.static /\ outcome'.calls # <<>>) =>
            pins' = [pins EXCEPT ![RecvHandle] = @ + 1]]_vars

\* a proxy method has invoked its shim with the receiver pinned once
C6_Witness ==
    /\ Called /\ ~body.static
    /\ outcome.calls # <<>>
    /\ pins[RecvHandle] = 1
    /\ outcome.shimThis = <<RecvHandle>>

\* C7 (exception propagation): when the shim hands back a non-zero exception
\* handle, a FuncSet that does not throw panics with the decoded error and
\* does not return; a FuncSet that throws returns the decoded, non-nil error
\* and does not panic.
C7_ExceptionPropagation ==
    (Called /\ outcome.calls # <<>> /\ outcome.exc # NullRefNum) =>
        /\ outcome.err = ExcObj
        /\ IF ~fs.Throws
           THEN outcome.kind = "panic_exc" /\ outcome.stmt = "none"
           ELSE /\ outcome.kind = "returned"
                /\ outcome.stmt \in {"return _res, _exc", "return nil, _exc",
                                     "return _exc"}

\* a non-throwing overloaded method panicked with the error of the shim
C7_Witness ==
    /\ Called /\ ~fs.Throws
    /\ outcome.exc = ExcHandle
    /\ outcome.kind = "panic_exc" /\ outcome.err = ExcObj
    /\ Len(outcome.calls) = 1

\* the FuncSets of C8: supported variants of one and of two parameters, no
\* argument list matching two different two-parameter variants
C8_Pre ==
    /\ Arities = {1, 2}
    /\ \A k1, k2 \in SupportedIdx :
          (k1 # k2 /\ Len(fs.Funcs[k1].Params) = 2 /\ Len(fs.Funcs[k2].Params) = 2)
              => \A a \in [1..2 -> DynTypes] : ~(Matches(k1, a) /\ Matches(k2, a))

FirstOf(S) == CHOOSE k \in S : \A j \in S : k <= j

\* the first variant in declaration order that the arguments match is taken
FirstMatchTaken ==
    Matching(outcome.args) # {} =>
        outcome.calls = <<FirstOf(Matching(outcome.args))>>

\* C8 as stated: with one argument an arity-1 variant is always invoked; with
\* two arguments matching exactly one arity-2 variant that variant is
\* invoked; the first matching variant in declaration order is taken.
C8_AsStated ==
    (C8_Pre /\ Called) =>
        /\ Len(outcome.args) = 1 =>
              /\ Len(outcome.calls) = 1
              /\ Len(fs.Funcs[outcome.calls[1]].Params) = 1
        /\ (Len(outcome.args) = 2 /\ Cardinality(Matching(outcome.args)) = 1) =>
              outcome.calls = <<FirstOf(Matching(outcome.args))>>
        /\ FirstMatchTaken

\* C8 (overload determinism): with one argument that an arity-1 variant
\* accepts, the first such variant is invoked, and with one argument that no
\* arity-1 variant accepts no shim is invoked; with two arguments matching
\* exactly one arity-2 variant that variant is invoked; the first matching
\* variant in declaration order is taken.
C8_OverloadDeterminism ==
    (C8_Pre /\ Called) =>
        /\ Len(outcome.args) = 1 =>
              IF Matching(outcome.args) # {}
              THEN /\ Len(outcome.calls) = 1
                   /\ Len(fs.Funcs[outcome.calls[1]].Params) = 1
              ELSE outcome.calls = <<>> /\ outcome.kind = "panic_nomatch"
        /\ (Len(outcome.args) = 2 /\ Cardinality(Matching(outcome.args)) = 1) =>
              outcome.calls = <<FirstOf(Matching(outcome.args))>>
        /\ FirstMatchTaken

\* an argument that two arity-1 variants accept went to the one declared
\* first, next to an arity-2 variant
C8_Witness ==
    /\ C8_Pre /\ Called
    /\ Len(outcome.args) = 1
    /\ Cardinality(Matching(outcome.args)) = 2
    /\ outcome.calls = <<FirstOf(Matching(outcome.args))>>
    /\ outcome.kind = "returned"

\* C9 (no match): a call whose arguments match no supported variant panics
\* with the message naming class and method, and never returns normally
\* without a shim call.
C9_NoMatchPanics ==
    (Called /\ Matching(outcome.args) = {}) =>
        outcome.kind = "panic_nomatch" /\ outcome.calls = <<>>

\* with more than one parameter count among the supported variants the
\* entry point branches on the argument count
CountSwitch == (Generated /\ Cardinality(Arities) > 1) => body.hasSwitch

\* C10 as stated: the entry point branches on the argument count first, and
\* behind that branch a call with more arguments than every supported
\* variant has parameters is dispatched to a variant instead of failing.
C10_AsStated ==
    /\ CountSwitch
    /\ (Called /\ body.hasSwitch /\ \A n \in Arities : Len(outcome.args) > n) =>
          outcome.calls # <<>> /\ outcome.kind = "returned"

\* C10 (count dispatch): the entry point branches on the argument count
\* exactly when the supported variants have more than one parameter count;
\* then a call goes only to a variant with exactly as many parameters as the
\* call has arguments, and a call whose argument count no supported variant
\* has, a longer one included, panics with the no-match message.
C10_CountDispatch ==
    /\ Generated => (body.hasSwitch <=> Cardinality(Arities) > 1)
    /\ (Called /\ body.hasSwitch) =>
          /\ \A j \in 1..Len(outcome.calls) :
                Len(fs.Funcs[outcome.calls[j]].Params) = Len(outcome.args)
          /\ Len(outcome.args) \notin Arities =>
                outcome.calls = <<>> /\ outcome.kind = "panic_nomatch"

\* a call with more arguments than any supported variant takes reached the
\* switch and ended in the no-match panic
C10_Witness ==
    /\ Called /\ body.hasSwitch
    /\ \A n \in Arities : Len(outcome.args) > n
    /\ outcome.kind = "panic_nomatch"


-----------------------------------------------------------------------------
(* Properties of the emitted files *)

Emitting == classes # NoRec
RunEnded == Emitting /\ (out.done = Files \/ out.faulted # {})

Has(file, it) == \E i \in 1..Len(out[file]) : out[file][i] = it

\* the instance methods of the run: class, FuncSet (Java) or method (ObjC), variant
MethodIds ==
    IF classes.lang = "java"
    THEN UNION {UNION {{<<c, s, k>> : k \in 1..Len(classes.list[c].Methods[s].Funcs)} :
                         s \in 1..Len(classes.list[c].Methods)} :
                  c \in 1..Len(classes.list)}
    ELSE UNION {{<<c, s, 1>> : s \in 1..Len(classes.list[c].Methods)} :
                  c \in 1..Len(classes.list)}

\* every parameter type and the return type of the method are accepted
TypesSupported(m) ==
    IF classes.lang = "java"
    THEN isFuncSupported(classes.list[m[1]].Methods[m[2]].Funcs[m[3]])
    ELSE ObjcWrapper_isFuncSupported(classes.list[m[1]].Methods[m[2]])

\* the artifacts of a method of the given shim family, per output file
Artifacts(prefix, m) ==
    {<<"h", Item("decl", prefix, m[1], m[2], m[3])>>,
     <<"c", Item("body", prefix, m[1], m[2], m[3])>>,
     <<"go", Item("gocall", prefix, m[1], m[2], m[3])>>}
    \cup (IF classes.lang = "java"
          THEN {<<"c", Item("storage", IF prefix = "csuper" THEN "sm" ELSE "m",
                            m[1], m[2], m[3])>>,
                <<"c", Item("lookup", IF prefix = "csuper" THEN "sm" ELSE "m",
                            m[1], m[2], m[3])>>}
          ELSE {})

InInterface(m) == Has("interfaces", Item("interface", "method", m[1], m[2], 0))

\* the method shares its name with a supported method (an overload of its FuncSet)
NameSupported(m) == \E m2 \in MethodIds : m2[1] = m[1] /\ m2[2] = m[2] /\ TypesSupported(m2)

\* C11: a method with an unsupported parameter or return type appears in none
\* of the outputs (declaration, body, method-ID storage and lookup, Go proxy,
\* interface), and once the generator run has ended every method whose types
\* are all supported appears in all of them
C11_UnsupportedExclusion ==
    Emitting =>
        \A m \in MethodIds :
            IF TypesSupported(m)
            THEN RunEnded =>
                    /\ \A a \in Artifacts("cproxy", m) : Has(a[1], a[2])
                    /\ InInterface(m)
            ELSE /\ \A a \in Artifacts("cproxy", m) \cup Artifacts("csuper", m) :
                        ~Has(a[1], a[2])
                 /\ InInterface(m) => NameSupported(m)



Written(file) == file \in out.done \ out.faulted

\* the methods of class c for which the file holds an artifact of the kind and family
Emitted(file, kind, prefix, c) ==
    {<<out[file][i].fs, out[file][i].f>> :
        i \in {j \in 1..Len(out[file]) :
                 /\ out[file][j].kind = kind
                 /\ out[file][j].prefix = prefix
                 /\ out[file][j].cls = c}}

\* the supported instance methods of class c, and the names (FuncSets) they carry
SupportedOf(c) == {<<m[2], m[3]>> : m \in {x \in MethodIds : x[1] = c /\ TypesSupported(x)}}
SupportedNamesOf(c) == {<<sk[1], 0>> : sk \in SupportedOf(c)}

\* anything of the csuper family emitted for class c, in any file
SuperArtifacts(c) ==
    UNION {{i \in 1..Len(out[file]) :
              /\ out[file][i].cls = c
              /\ out[file][i].prefix \in {"csuper", "sclass", "sm", "Super"}} :
           file \in Files}

\* C19: the csuper declaration, the csuper body and the Super() methods are
\* emitted for a class exactly when the class is overridden by a managed type,
\* and then for exactly the supported methods the cproxy shims are emitted
\* for; nothing of the csuper family is emitted for any other class
C19_SuperIffOverridden ==
    Emitting =>
        \A c \in 1..Len(classes.list) :
            IF classes.list[c].managed
            THEN /\ Written("h") =>
                        /\ Emitted("h", "decl", "csuper", c) = SupportedOf(c)
                        /\ Emitted("h", "decl", "cproxy", c) = SupportedOf(c)
                 /\ Written("c") =>
                        /\ Emitted("c", "body", "csuper", c) = SupportedOf(c)
                        /\ Emitted("c", "body", "cproxy", c) = SupportedOf(c)
                 /\ Written("go") =>
                        /\ Has("go", Item("Super", "csuper", c, 0, 0))
                        /\ Emitted("go", "gomethod", "csuper", c) = SupportedNamesOf(c)
                        /\ Emitted("go", "gocall", "csuper", c) = SupportedOf(c)
                        /\ Emitted("go", "gocall", "cproxy", c) = SupportedOf(c)
                 /\ Written("interfaces") =>
                        Has("interfaces", Item("interface", "Super", c, 0, 0))
            ELSE SuperArtifacts(c) = {}

\* an overridden class with a supported and an unsupported method and a class
\* that is not overridden, all four files written
C19_Witness ==
    /\ Emitting /\ out.done = Files /\ out.faulted = {}
    /\ \E c1, c2 \in 1..Len(classes.list) :
          /\ classes.list[c1].managed /\ ~classes.list[c2].managed
          /\ Emitted("c", "body", "csuper", c1) # {}
          /\ \E m \in MethodIds : m[1] = c1 /\ ~TypesSupported(m)
          /\ Emitted("c", "body", "cproxy", c2) # {}

\* the storage a shim body reads: the method id, and for the static and the
\* csuper shims the class handle
Refers(b) ==
    IF b.prefix = "cproxy_s"
    THEN {Item("storage", "class", b.cls, 0, 0), Item("storage", "m_s", b.cls, b.fs, b.f)}
    ELSE IF b.prefix = "csuper"
    THEN {Item("storage", "sclass", b.cls, 0, 0), Item("storage", "sm", b.cls, b.fs, b.f)}
    ELSE {Item("storage", "m", b.cls, b.fs, b.f)}

BodyAt(j) == out.c[j].kind = "body"
MethodStorageAt(i) == out.c[i].kind = "storage" /\ out.c[i].prefix \in {"m", "sm", "m_s"}

\* C20: in the file GenC writes, a shim body comes after the declaration of
\* the class handle and of every method-id storage it refers to, so no body is
\* emitted for a method whose storage was not declared, and every method-id
\* storage declared is followed by the body of its shim in the same file
C20_TwoPassOrder ==
    (Emitting /\ classes.lang = "java") =>
        /\ \A j \in 1..Len(out.c) :
              BodyAt(j) =>
                 \A st \in Refers(out.c[j]) : \E i \in 1..(j - 1) : out.c[i] = st
        /\ \A i \in 1..Len(out.c) :
              MethodStorageAt(i) =>
                 \E j \in (i + 1)..Len(out.c) : BodyAt(j) /\ out.c[i] \in Refers(out.c[j])

\* GenC has written the file for two classes, with a csuper and a static shim
C20_Witness ==
    /\ Emitting /\ classes.lang = "java" /\ Written("c")
    /\ Len(classes.list) > 1
    /\ \E j \in 1..Len(out.c) : BodyAt(j) /\ out.c[j].prefix = "csuper"
    /\ \E j \in 1..Len(out.c) : BodyAt(j) /\ out.c[j].prefix = "cproxy_s"


-----------------------------------------------------------------------------
(* Properties of strings and byte arrays on the wire *)

StringAt(stage) == wire # NoRec /\ wire.tag = "string" /\ wire.stage = stage

\* C12 as stated: decodeString applied to the result of encodeString gives
\* back the string, on both runtimes
C12_AsStated == StringAt("looped") => wire.got = wire.S

\* C12: decodeString(encodeString(S)) = S on the ObjC support code for every
\* string; on the Java support code it is the UTF-16 code units of S read as
\* bytes, which is S for the empty string; and on both runtimes a well-formed
\* string sent out with encodeString and brought back by the native string
\* conversions is decoded by decodeString to itself
C12_StringRoundTrip ==
    /\ (StringAt("looped") /\ wire.rt = "objc") => wire.got = wire.S
    /\ (StringAt("looped") /\ wire.rt = "java") =>
          /\ wire.got = UnitsToBytes(UTF16Encode(wire.S))
          /\ wire.S = <<>> => wire.got = wire.S
    /\ (StringAt("decoded") /\ WellFormed(wire.S)) => wire.got = wire.S

\* a string with a character beyond the basic plane came back through Java
C12_Witness ==
    /\ StringAt("decoded") /\ wire.rt = "java"
    /\ \E i \in 1..Len(Runes(wire.S)) : Runes(wire.S)[i] >= 65536
    /\ Len(wire.S) > 4
    /\ wire.got = wire.S

CBuffers == {p \in 1..Len(heap.bufs) : heap.bufs[p].space = "c"}
FreedOnce(p) == heap.bufs[p].frees = 1 /\ ~heap.bufs[p].live
NoDoubleFree == \A p \in 1..Len(heap.bufs) : heap.bufs[p].frees <= 1
GoMemoryKept == \A p \in 1..Len(heap.bufs) : heap.bufs[p].space # "c" => heap.bufs[p].frees = 0
\* the nstring in flight points at a malloc'ed buffer that nothing else refers to
FreshBuffer ==
    /\ wire.n.ptr \in CBuffers
    /\ wire.n.ptr # wire.src.ptr
    /\ heap.bufs[wire.n.ptr].live /\ heap.bufs[wire.n.ptr].frees = 0
Decoded == StringAt("looped") \/ StringAt("decoded")
CrossingOver == Decoded \/ StringAt("foreign")

\* C13 as stated: every encodeString call returns a freshly allocated buffer
\* and every decodeString call frees the buffer of its argument exactly once
C13_AsStated ==
    /\ StringAt("encoded") => FreshBuffer
    /\ Decoded => (wire.consumed # NullPtr /\ FreedOnce(wire.consumed))

\* C13: encodeString of a non-empty string returns a freshly malloc'ed buffer
\* that aliases no Go memory, and decodeString frees the buffer of a non-null
\* argument exactly once; the empty string crosses as the null nstring, for
\* which nothing is allocated and nothing is freed; no buffer is freed twice,
\* Go memory is never freed, and when the crossing is over no buffer is left
C13_StringBuffers ==
    (wire # NoRec /\ wire.tag = "string") =>
        /\ StringAt("encoded") =>
              IF wire.S = <<>> THEN wire.n = NullN /\ CBuffers = {} ELSE FreshBuffer
        /\ Decoded =>
              IF wire.n.ptr = NullPtr
              THEN wire.got = <<>> /\ \A p \in CBuffers : FreedOnce(p)
              ELSE wire.consumed = wire.n.ptr /\ FreedOnce(wire.consumed)
        /\ NoDoubleFree
        /\ GoMemoryKept
        /\ CrossingOver => \A p \in CBuffers : ~heap.bufs[p].live

\* a string went out and came back: two buffers, each freed once
C13_Witness ==
    /\ StringAt("decoded")
    /\ wire.consumed # NullPtr
    /\ Cardinality(CBuffers) = 2
    /\ \A p \in CBuffers : FreedOnce(p)



BytesCrossed == wire # NoRec /\ wire.tag = "bytes" /\ wire.stage \in {"crossed", "mutated"}
Untouched == \A p \in 1..Len(heap.bufs) : heap.bufs[p].frees = 0 /\ heap.bufs[p].live

\* C14: in transient mode fromSlice and toSlice allocate nothing and return a
\* view of the source buffer B; in retained mode they return a copy in memory
\* of its own with the contents B had at the crossing, which a later write to
\* B does not change, and toSlice frees B exactly once; a nil or empty array
\* crosses as the null value in both modes
C14_ByteArrayOwnership ==
    BytesCrossed =>
        IF wire.src.ptr = NullPtr \/ wire.src.len = 0
        THEN /\ wire.n = NullN
             /\ Len(heap.bufs) <= 1
             /\ Untouched
        ELSE IF ~wire.cpy
        THEN /\ wire.n = wire.src
             /\ Len(heap.bufs) = 1
             /\ Untouched
        ELSE /\ wire.n.ptr # wire.src.ptr
             /\ wire.n.len = wire.src.len
             /\ heap.bufs[wire.n.ptr].live
             /\ heap.bufs[wire.n.ptr].space = (IF wire.fn = "fromSlice" THEN "c" ELSE "go")
             /\ Pointee(heap, wire.n) = wire.S
             /\ Len(heap.bufs) = 2
             /\ IF wire.fn = "toSlice"
                THEN FreedOnce(wire.src.ptr)
                ELSE heap.bufs[wire.src.ptr].frees = 0 /\ heap.bufs[wire.src.ptr].live

\* B was written after a retained crossing and the copy kept the old contents
C14_Witness ==
    /\ BytesCrossed /\ wire.stage = "mutated" /\ wire.cpy
    /\ Pointee(heap, wire.src) # wire.S
    /\ Pointee(heap, wire.n) = wire.S
    /\ wire.src.len = MaxBytes


-----------------------------------------------------------------------------
(* Properties of the return statements *)

\* values a return statement hands back, and the values genFuncDecl declares
ValuesOf(stmt) ==
    IF stmt \in {"return _res, _exc", "return nil, _exc"} THEN 2
    ELSE IF stmt \in {"return _res", "return nil", "return _exc"} THEN 1
    ELSE 0
Declared(s) == (IF s.HasRet THEN 1 ELSE 0) + (IF s.Throws THEN 1 ELSE 0)
Placeholder(stmt) == stmt \in {"return nil", "return nil, _exc"}
ReturnsResult(stmt) == stmt \in {"return _res", "return _res, _exc"}

\* the FuncSet has a unified return value and a supported variant without one
MixedReturns ==
    /\ Generated /\ fs.HasRet
    /\ \E k \in SupportedIdx : fs.Funcs[k].Ret = Nil

\* C18: for a FuncSet with a unified return value whose variants do not all
\* return a value, the branch of a variant without a return value returns the
\* nil placeholder, the branch of a variant with one reads the shim result and
\* returns it, every branch returns as many values as the signature declares,
\* and a call hands back the placeholder only when the variant it invoked
\* returns nothing
C18_NilPlaceholder ==
    MixedReturns =>
        /\ \A b \in AllBranches :
              /\ ValuesOf(b.ret.stmt) = Declared(fs)
              /\ IF fs.Funcs[b.f].Ret = Nil
                 THEN Placeholder(b.ret.stmt) /\ ~b.ret.readRes
                 ELSE ReturnsResult(b.ret.stmt) /\ b.ret.readRes
        /\ (Called /\ outcome.kind = "returned" /\ outcome.calls # <<>>) =>
              /\ ValuesOf(outcome.stmt) = Declared(fs)
              /\ Placeholder(outcome.stmt) <=> fs.Funcs[outcome.calls[1]].Ret = Nil

\* a call returned the result of a variant of a set that also has a variant
\* returning the placeholder
C18_Witness ==
    /\ MixedReturns /\ Called /\ outcome.kind = "returned"
    /\ outcome.calls # <<>>
    /\ fs.Funcs[outcome.calls[1]].Ret # Nil
    /\ ReturnsResult(outcome.stmt)
    /\ \E b \in AllBranches : Placeholder(b.ret.stmt)


-----------------------------------------------------------------------------
(* Properties of the native shims                                           *)

IsBytes(t) ==
    IF t = Nil THEN FALSE
    ELSE IF shim.rt = "android" THEN Kind(t) = "Array"
    ELSE ObjcType[t].Kind = "Data"

\* the copy flags the native side ran the conversions of a slot with
\* (slot 0 is the result)
NativeFlags(slot) == {fl[2] : fl \in {g \in cst.flags : g[1] = slot}}

\* C15: in every shim and its Go proxy, of both runtimes, a byte-array
\* argument is encoded by fromSlice without copy and decoded by the native
\* side without copy (transient), a byte-array result is encoded by the
\* native side with copy and decoded by toSlice with copy (retained); the
\* flag of the Go statement of a slot equals every flag the native side used
\* for that slot, and the native side has converted each byte-array argument
\* by the time of the call and the byte-array result by the time it returns
C15_ByteArrayModes ==
    shim # NoRec =>
      /\ \A i \in 1..Len(shim.goArgs) :
            IsBytes(shim.f.Params[i]) =>
              /\ shim.goArgs[i].op = "fromSlice"
              /\ shim.goArgs[i].n = toCFlag(FALSE)
              /\ NativeFlags(i) \subseteq {shim.goArgs[i].n}
              /\ cst.called => NativeFlags(i) # {}
      /\ \A i \in 1..Len(shim.goRet) :
            IsBytes(shim.goRet[i].arg) =>
              /\ shim.goRet[i].op = "toSlice"
              /\ shim.goRet[i].n = toCFlag(TRUE)
              /\ NativeFlags(0) \subseteq {shim.goRet[i].n}
              /\ cst.done => NativeFlags(0) # {}

\* a Java shim that took a byte array and returned one has run to its return
C15_Witness ==
    /\ shim # NoRec
    /\ shim.rt = "android" /\ cst.done
    /\ shim.f.Params = <<"bytes">> /\ shim.f.Ret = "bytes"
    /\ cst.flags = {<<1, 0>>, <<0, 1>>}



\* the frame size the shim must ask for: one slot per parameter and one for
\* the receiver of a method
FrameSize == Len(shim.f.Params) + (IF shim.f.Static THEN 0 ELSE 1)

\* the frame discipline of one execution
Scoped ==
    /\ cst.outside = 0
    /\ cst.pushes > 0 => cst.cap = FrameSize
    /\ cst.pushes <= 1 /\ cst.pops <= cst.pushes
    /\ ~cst.late
    /\ cst.done => cst.pushes = 1 /\ cst.pops = 1 /\ ~cst.leaked

\* C16: every native shim body, of both runtimes, pushes a local frame of
\* parameter count (+1 for the receiver) slots before it creates a
\* reference, pops it exactly once before it returns, also when the call
\* raised, and converts no reference after the pop
C16_ResourceScoping == shim # NoRec => Scoped

\* the frame discipline holds in the shims ClassGen generates
C16_JavaScoped == (shim # NoRec /\ shim.rt = "android") => Scoped

\* a Java method shim returned after the call raised, its frame popped once
C16_JavaWitness ==
    /\ shim # NoRec
    /\ shim.rt = "android" /\ shim.kind = "csuper"
    /\ cst.done /\ cst.raised
    /\ cst.pushes = 1 /\ cst.pops = 1 /\ cst.cap = 3

\* C17: a Java shim returns the exception handle next to the result (alone
\* when the function has no result), as its declaration says; the handle is
\* NullRefNum exactly when the call raised nothing; after a raise the result
\* is cleared before it is converted, and the cleared value is returned
C17_ExceptionWire ==
    (shim # NoRec /\ shim.rt = "android") =>
      /\ shim.decl = (IF shim.f.Ret # Nil THEN "ret_T" ELSE "jint")
      /\ (cst.raised /\ cst.cres # "none") => cst.cres = "zero"
      /\ cst.done =>
            /\ cst.ret.form = shim.decl
            /\ (cst.ret.exc = NullRefNum) <=> ~cst.raised
            /\ (cst.ret.res # "none") <=> (shim.f.Ret # Nil)
            /\ (cst.raised /\ shim.f.Ret # Nil) => cst.ret.res = "zero"

\* a Java shim returned after a raise that left an unspecified result
C17_Witness ==
    /\ shim # NoRec
    /\ shim.rt = "android" /\ cst.done
    /\ cst.raised /\ cst.junk
    /\ cst.ret.res = "zero" /\ cst.ret.exc = ExcHandle



-----------------------------------------------------------------------------
(* Properties of the static entry points *)

\* the static functions and constructors of the run: class, FuncSet, variant
FuncIds ==
    UNION {UNION {{<<c, s, k>> : k \in 1..Len(classes.list[c].Funcs[s].Funcs)} :
                     s \in 1..Len(classes.list[c].Funcs)} :
              c \in 1..Len(classes.list)}

FuncOf(m) == classes.list[m[1]].Funcs[m[2]].Funcs[m[3]]

\* the variants the emitted cproxy_s entry points call
Reachable == {m \in FuncIds : Has("go", Item("gocall", "cproxy_s", m[1], m[2], m[3]))}

\* the shim of the variant is declared, defined, and its method id is stored
\* and looked up in init_proxies
ShimProvided(m) ==
    /\ Has("h", Item("decl", "cproxy_s", m[1], m[2], m[3]))
    /\ Has("c", Item("body", "cproxy_s", m[1], m[2], m[3]))
    /\ Has("c", Item("storage", "m_s", m[1], m[2], m[3]))
    /\ Has("c", Item("lookup", "m_s", m[1], m[2], m[3]))

\* C21: once GenH, GenC and GenGo have written their files for Java classes,
\* every static shim the Go entry points call is declared by GenH and defined
\* by GenC with its method id initialised, and the variants the cproxy_s
\* entry points reach are exactly the public and supported ones
C21_StaticShimsProvided ==
    (Emitting /\ classes.lang = "java" /\ {"h", "c", "go"} \subseteq out.done
       /\ out.faulted = {}) =>
        /\ \A m \in Reachable : ShimProvided(m)
        /\ Reachable = {m \in FuncIds : FuncOf(m).Public /\ isFuncSupported(FuncOf(m))}



-----------------------------------------------------------------------------
(* Properties of the Objective-C result shapes *)

\* C22: for every supported Objective-C method, whatever its return type
\* (none, BOOL, other) and with or without the trailing NSError** parameter,
\* the generator does not fault, and the Go signature, the Go return
\* statement, the declared return type of the shim and the return statement
\* of the shim have the same result shape, a BOOL result being dropped for
\* the error when the error parameter is present
C22_ResultShapes ==
    (shim # NoRec /\ shim.rt = "darwin" /\ ObjcWrapper_isFuncSupported(shim.f)) =>
        /\ shim.sig # "fault"
        /\ shim.sig = shim.goReturn
        /\ shim.goReturn = shim.cdecl
        /\ shim.cdecl = ShapeOfReturn(shim.decl)
        /\ (returnsErr(shim.f) /\ shim.f.Ret # Nil /\ ObjcType[shim.f.Ret].Kind = "Bool")
              => shim.sig = "error"



-----------------------------------------------------------------------------
(* Properties of the variant branches *)

Overloaded == Generated /\ Cardinality(SupportedIdx) > 1

\* C23: in the entry point of a FuncSet with more than one supported variant
\* every variant branch ends in a return statement, and a call invokes at
\* most one shim: once a variant has been called the call returns (or panics
\* with the exception), no later variant is tried and the trailing no-match
\* panic is not reached
C23_AtMostOneShim ==
    Overloaded =>
        /\ body.trailingPanic
        /\ \A b \in AllBranches : b.ret.stmt # "none"
        /\ Called =>
              /\ Len(outcome.calls) <= 1
              /\ outcome.calls # <<>> => outcome.kind \in {"returned", "panic_exc"}
              /\ outcome.kind = "panic_nomatch" => outcome.calls = <<>>

\* a call of a function without results invoked a variant that is followed
\* by another variant of the same bucket, and returned
C23_Witness ==
    /\ Overloaded /\ Called
    /\ ~fs.HasRet /\ ~fs.Throws
    /\ Len(outcome.calls) = 1
    /\ outcome.kind = "returned" /\ outcome.stmt = "return"
    /\ \E k \in SupportedIdx :
          /\ k > outcome.calls[1]
          /\ Len(fs.Funcs[k].Params) = Len(outcome.args)



-----------------------------------------------------------------------------
(* Properties of the argument-count switch *)

\* C24: the base of the argument-count switch and the largest count are the
\* minimum and the maximum parameter count of the supported variants, the
\* case labels are exactly the parameter counts of the supported variants,
\* and the variadic parameter the extra arguments are read from is the one at
\* that minimum; no unsupported variant, the first declared one included,
\* has a part in them
C24_SupportedOnly ==
    Generated =>
        /\ body.minp = MinOf(Arities)
        /\ body.maxp = MaxOf(Arities)
        /\ ~body.fault =>
              /\ {body.cases[c].n : c \in 1..Len(body.cases)} = Arities
              /\ \A b \in AllBranches : \A j \in 1..Len(b.params) :
                    b.params[j].src = "tail" => b.params[j].idx = MinOf(Arities)



-----------------------------------------------------------------------------
(* Properties of the supported Objective-C methods *)

\* what makes a type unsupported: it is indirect, of unknown kind, a protocol
\* passed by reference, or a class type named SEL or void
Excluded(t) ==
    \/ ObjcType[t].Indirect
    \/ ObjcType[t].Kind = "Unknown"
    \/ ObjcType[t].Kind = "Protocol" /\ ObjcType[t].ByRef
    \/ ObjcType[t].Kind = "Class" /\ ObjcType[t].Name \in {"SEL", "void"}

IsNSErrorPP(t) ==
    ObjcType[t].Kind = "Class" /\ ObjcType[t].Indirect /\ ObjcType[t].Name = "NSError"

\* C25: a method is supported exactly when its return type, if it has one, is
\* supported and every parameter is supported, except that the last parameter
\* may be NSError**; an indirect parameter elsewhere, another indirect type
\* in last position, an unknown kind, a by-reference protocol, or a class
\* named SEL or void excludes the method
C25_SupportedIff ==
    verdict # NoRec =>
        (verdict.supported <=>
            /\ meth.f.Ret # Nil => ~Excluded(meth.f.Ret)
            /\ \A i \in 1..Len(meth.f.Params) :
                  \/ ~Excluded(meth.f.Params[i])
                  \/ i = Len(meth.f.Params) /\ IsNSErrorPP(meth.f.Params[i]))

\* a method with a result and a trailing NSError** after a supported
\* parameter was found supported
C25_Witness ==
    /\ verdict # NoRec /\ verdict.supported
    /\ Len(meth.f.Params) = 2
    /\ IsNSErrorPP(meth.f.Params[2])
    /\ meth.f.Ret # Nil



-----------------------------------------------------------------------------
(* Properties of the Objective-C error parameter *)

ErrShimReturned ==
    /\ shim # NoRec
    /\ shim.rt = "darwin" /\ returnsErr(shim.f) /\ cst.done

\* C26: the shim of a method with a trailing NSError** returns a non-zero
\* error handle only if the callee set the error and, when the method has a
\* return value, the result it returned is zero/nil; an error set by a
\* callee that returned a non-zero result is dropped and the handle
\* returned is 0
C26_ErrorSelection ==
    ErrShimReturned =>
        /\ cst.ret.exc # NullRefNum =>
              /\ cst.raised
              /\ shim.f.Ret # Nil => cst.res = "zero"
        /\ (cst.raised /\ shim.f.Ret # Nil /\ cst.res = "val") =>
              cst.ret.exc = NullRefNum

\* the callee set the error and returned a non-zero result: handle 0 came back
C26_Witness ==
    /\ ErrShimReturned
    /\ cst.raised /\ cst.res = "val"
    /\ cst.ret.exc = NullRefNum
    /\ cst.ret.form = "ret_T"



-----------------------------------------------------------------------------
(* Properties of the package list *)

NoDuplicates(seq) == \A i, j \in 1..Len(seq) : seq[i] = seq[j] => i = j

\* C27: after Init with any list of classes or types, Packages() of ClassGen
\* and of ObjcWrapper holds every package path at most once and GenPackage
\* writes every package path at most once, also when two Objective-C types
\* share module and Go name or a module path equals the module/name path of
\* a type
C27_PackagesOnce ==
    gen # NoRec => NoDuplicates(gen.pkgs) /\ NoDuplicates(gen.written)

====
